---------------------------- MODULE Spec2Model ----------------------------
(***************************************************************************)
(* DocLens ingestion: a model of src/ingest/ingest_pipeline.py             *)
(* (ingest_docs and batched), of the response handling of                  *)
(* src/ingest/extract_graph.py and of the store writes of                  *)
(* src/ingest/create_graph.py, create_index.py and index_image.py.         *)
(*                                                                         *)
(* One run of ingest_docs is one behaviour.  The main thread walks through *)
(* the function body (pc); in graph mode the worker threads of the         *)
(* ThreadPoolExecutor complete the submitted extraction calls in any       *)
(* order.  The stores, the extractor and the file system are external:     *)
(* what they answer is a nondeterministic choice at the moment the code    *)
(* asks.                                                                   *)
(***************************************************************************)
EXTENDS Integers, Sequences, FiniteSets, TLC

(* ------------------------------ bounds -------------------------------- *)

\* Largest number of chunks the Chunker yields for the document tree.
MaxChunks == 4

\* batch_size ranges over 0..MaxBatch (0 exercises max(1, batch_size)).
MaxBatch == 3

\* Largest number of image files found under the assets subtree.
MaxImages == 2

(* ------------------------- program constants -------------------------- *)

\* ImageEmbedderConfig.batch_size
ImageBatchSize == 16

(* ------------------------- extractor responses ------------------------ *)

\* An element of an "entities" list: a JSON object (obj) with an id, or
\* something that is not an object.  NoId stands for a missing id
\* (ent.get("id") is None); "" is an empty id.
NoId == "<none>"

Ent(id) == [obj |-> TRUE, id |-> id]

NonObjectElement == [obj |-> FALSE, id |-> NoId]

\* A JSON field of the response object: absent, present and not a list,
\* or a list of elements.
Absent == [kind |-> "absent", items |-> <<>>]

NonList == [kind |-> "nonlist", items |-> <<>>]

List(items) == [kind |-> "list", items |-> items]

\* The content of the extractor's chat completion, by what the parser can
\* do with it:
\*   text "json"     json.loads(content) succeeds,
\*   text "wrapped"  json.loads(content) fails, the block from the first "{"
\*                   to the last "}" parses,
\*   text "garbage"  neither parses;
\* isObject says whether the parsed JSON value is an object.
Content(text, isObject, entities, relations) ==
    [text |-> text, isObject |-> isObject,
     entities |-> entities, relations |-> relations]

Responses ==
    { Content("garbage", FALSE, Absent, Absent),
      Content("json", FALSE, Absent, Absent),
      Content("json", TRUE,
              List(<<Ent("e1"), Ent("e2")>>), List(<<Ent("e1")>>)),
      Content("wrapped", TRUE, NonList, Absent),
      Content("json", TRUE, List(<<NonObjectElement>>), List(<<>>)),
      Content("json", TRUE, List(<<Ent(""), Ent("e2")>>), NonList),
      Content("json", TRUE,
              List(<<Ent("e3"), Ent(NoId)>>), List(<<NonObjectElement>>)) }

\* The result dictionary {"entities": [...], "relations": [...]}.
KG(entities, relations) == [entities |-> entities, relations |-> relations]

EmptyKG == KG(<<>>, <<>>)

\* What a call returns: a value, or an exception of class exc.
Returned(kg) == [raised |-> FALSE, exc |-> "none", kg |-> kg]

Raised(exc) == [raised |-> TRUE, exc |-> exc, kg |-> EmptyKG]

\* The exceptions a store raises: requests' HTTPError (vector index),
\* the driver's Neo4jError (graph store).
StoreErrors == {"HTTPError", "Neo4jError"}

(* ---------------------------- pure functions -------------------------- *)

Min(a, b) == IF a < b THEN a ELSE b

Max(a, b) == IF a > b THEN a ELSE b

\* extract_kg_from_chunk, by the answer of the chat completion.  An answer
\* with text "error" is the completion call itself raising (timeout,
\* transport error).  Parsing: strict parse, else the brace block, else the
\* empty result; parsed.get on a value that is not an object raises;
\* fields that are absent or not lists become [].
extract_kg_from_chunk(content) ==
    IF content.text = "error" THEN Raised("APIError")
    ELSE IF content.text = "garbage" THEN Returned(EmptyKG)
    ELSE IF ~content.isObject THEN Raised("AttributeError")
    ELSE Returned(KG(IF content.entities.kind = "list"
                        THEN content.entities.items ELSE <<>>,
                     IF content.relations.kind = "list"
                        THEN content.relations.items ELSE <<>>))

\* The completion call raising before any content is read.
TransportError == Content("error", FALSE, Absent, Absent)

Answers == Responses \cup {TransportError}

\* One step of the generator batched(iterable, n): list(islice(it, n)) and
\* what is left of the iterator.
batched(it, n) ==
    [batch |-> SubSeq(it, 1, Min(n, Len(it))),
     it |-> SubSeq(it, Min(n, Len(it)) + 1, Len(it))]

\* Python truthiness of e.get("id").
Truthy(id) == id # NoId /\ id # ""

IsTruthyEnt(e) == Truthy(e.id)

IdsOf(ents) == [i \in 1..Len(ents) |-> ents[i].id]

\* entity_ids = [e.get("id") for e in entities if e.get("id")]
entity_ids(entities) == IdsOf(SelectSeq(entities, IsTruthyEnt))

\* upsert_entities / upsert_relations call .get on every element: an
\* element that is not an object raises AttributeError inside the write.
UpsertRaises(items) == \E i \in 1..Len(items) : ~items[i].obj

\* kg_list slots: None, or a result.
None == <<>>

Some(kg) == <<kg>>

\* Lines 101-105: a None slot is read as the empty result.
KgOf(slot) == IF slot = None THEN EmptyKG ELSE slot[1]

Range(s) == { s[i] : i \in 1..Len(s) }

\* A store write as the stores see it.
W(op, chunk, ids) == [op |-> op, chunk |-> chunk, ids |-> ids]

(* -------------------------------- state ------------------------------- *)

VARIABLES
    enable_graph,   \* argument of ingest_docs
    batch_size,     \* argument of ingest_docs
    assets,         \* whether root_dir/assets exists
    pc,             \* position of the main thread in ingest_docs
    chunks,         \* the materialized chunk list (chunk k is the number k)
    k,              \* plain mode: position of the loop over chunks
    it,             \* graph mode: what the batched() iterator still holds
    chunk_batch,    \* graph mode: the current batch
    futs,           \* the futures of the current batch, in submission order
    kg_list,        \* the result list of the current batch
    widx,           \* position of the write loop in the batch
    wstep,          \* "entities", "relations" or "index" for chunk widx
    pbar,           \* the chunk progress bar's count
    session,        \* graph-store session: "none", "open", "closed"
    img_it,         \* what the image batched() iterator still holds
    valid_paths,    \* decoded images of the current image batch, to index
    inflight,       \* chunks whose extraction call a worker is running
    error,          \* the exception that left ingest_docs, and where
    writes,         \* history: every store operation performed, in order
    calls,          \* history: chunk of every extraction call submitted
    batches,        \* history: every batch the generator yielded
    phases,         \* history: the phases the run went through
    graph,          \* create_graph.py: the nodes and edges of the graph store
    upserts,        \* history: the upsert_* calls made on the graph store
    win,            \* chunker.py: the frame of a _char_windows call
    chunker,        \* chunker.py: the frame of a chunk_markdown_text call
    hash,           \* chunker.py: the frame of a _hash_id call
    walk            \* chunker.py: the frame of a chunk_dir call

vars == <<enable_graph, batch_size, assets, pc, chunks, k, it, chunk_batch,
          futs, kg_list, widx, wstep, pbar, session, img_it, valid_paths,
          inflight, error, writes, calls, batches, phases,
          graph, upserts, win, chunker, hash, walk>>

args == <<enable_graph, batch_size, assets>>

\* The state of ingest_docs.
ingest == <<enable_graph, batch_size, assets, pc, chunks, k, it, chunk_batch,
            futs, kg_list, widx, wstep, pbar, session, img_it, valid_paths,
            inflight, error, writes, calls, batches, phases>>

\* The state of the functions of create_graph.py and chunker.py when they
\* are called on their own; ingest_docs is modelled with these calls
\* abstracted into its log and leaves this state alone.
lib == <<graph, upserts, win, chunker, hash, walk>>

\* No call of a function is under way.
NoFrame == [pc |-> "none"]

\* The graph store is empty.
GraphEmpty ==
    /\ graph = [nodes |-> <<>>, edges |-> <<>>]
    /\ upserts = <<>>

LibIdle ==
    /\ GraphEmpty
    /\ win = NoFrame
    /\ chunker = NoFrame
    /\ hash = NoFrame
    /\ walk = NoFrame

NoError == [exc |-> "none", at |-> "none"]

\* Mutation of effective_batch_size: batch_size is used as given.
effective_batch_size_Raw == batch_size

\* Line 68: effective_batch_size = max(1, batch_size)
effective_batch_size == Max(1, batch_size)

\* ingest_docs has been called and has done nothing yet.
IngestStart ==
    /\ pc = "start"
    /\ chunks = <<>>
    /\ k = 1
    /\ it = <<>>
    /\ chunk_batch = <<>>
    /\ futs = <<>>
    /\ kg_list = <<>>
    /\ widx = 1
    /\ wstep = "entities"
    /\ pbar = 0
    /\ session = "none"
    /\ img_it = <<>>
    /\ valid_paths = <<>>
    /\ inflight = {}
    /\ error = NoError
    /\ writes = <<>>
    /\ calls = <<>>
    /\ batches = <<>>
    /\ phases = <<"Idle">>

Init ==
    /\ enable_graph \in BOOLEAN
    /\ batch_size \in 0..MaxBatch
    /\ assets \in BOOLEAN
    /\ IngestStart
    /\ LibIdle

\* An exception leaves ingest_docs: the with-block closes the session.
Abort(e) ==
    /\ pc' = "aborted"
    /\ error' = [exc |-> e, at |-> pc]
    /\ session' = IF session = "open" THEN "closed" ELSE session

(* ------------------------ start, chunking, plain ---------------------- *)

\* Lines 40-43, create_index: the old index is deleted, the new one is put;
\* a refused put raises (raise_for_status).
CreateIndex ==
    /\ pc = "start"
    /\ phases' = Append(phases, "Chunking")
    /\ \E ok \in BOOLEAN :
         IF ok
         THEN /\ writes' = writes \o <<W("delete_index", 0, <<>>),
                                       W("put_index", 0, <<>>)>>
              /\ pc' = "chunking"
              /\ UNCHANGED <<error, session>>
         ELSE /\ writes' = Append(writes, W("delete_index", 0, <<>>))
              /\ Abort("HTTPError")
    /\ UNCHANGED <<args, lib, inflight, chunks, k, it, chunk_batch, futs, kg_list, widx,
                   wstep, pbar, img_it, valid_paths, calls, batches>>

\* Mutation of Chunk: the return on an empty chunk list is missing.
Chunk_NoEarlyReturn ==
    /\ pc = "chunking"
    /\ \E n \in 0..MaxChunks :
         /\ chunks' = [i \in 1..n |-> i]
         /\ IF ~enable_graph
            THEN pc' = "plain" /\ phases' = Append(phases, "PlainIndexing")
            ELSE pc' = "graph" /\ phases' = Append(phases, "GraphIndexing")
    /\ UNCHANGED <<args, lib, inflight, k, it, chunk_batch, futs, kg_list, widx,
                   wstep, pbar, session, img_it, valid_paths, error, writes,
                   calls, batches>>

\* Lines 45-72: the chunk list is materialized; no chunks: return; plain
\* mode or graph mode.
Chunk ==
    /\ pc = "chunking"
    /\ \E n \in 0..MaxChunks :
         /\ chunks' = [i \in 1..n |-> i]
         /\ IF n = 0
            THEN pc' = "done" /\ phases' = Append(phases, "Done")
            ELSE IF ~enable_graph
            THEN pc' = "plain" /\ phases' = Append(phases, "PlainIndexing")
            ELSE pc' = "graph" /\ phases' = Append(phases, "GraphIndexing")
    /\ UNCHANGED <<args, lib, inflight, k, it, chunk_batch, futs, kg_list, widx, wstep,
                   pbar, session, img_it, valid_paths, error, writes, calls,
                   batches>>

\* Mutation of PlainChunk: the loop walks the list from its end.
PlainChunk_Reversed == chunks[Len(chunks) + 1 - k]

\* Line 62: for chunk in chunks.
PlainChunk == chunks[k]

\* Lines 62-65: one iteration of the plain loop: index_chunk(chunk, []),
\* then pbar.update(1).
PlainIndexChunk ==
    /\ pc = "plain"
    /\ k <= Len(chunks)
    /\ \E ok \in BOOLEAN :
         IF ok
         THEN /\ writes' = Append(writes, W("index_chunk", PlainChunk, <<>>))
              /\ pbar' = pbar + 1
              /\ k' = k + 1
              /\ UNCHANGED <<pc, error, session>>
         ELSE /\ Abort("HTTPError")
              /\ UNCHANGED <<writes, pbar, k>>
    /\ UNCHANGED <<args, lib, inflight, chunks, it, chunk_batch, futs, kg_list, widx,
                   wstep, img_it, valid_paths, calls, batches, phases>>

\* Line 66: the plain branch returns from ingest_docs.
PlainReturn ==
    /\ pc = "plain"
    /\ k > Len(chunks)
    /\ pc' = "done"
    /\ phases' = Append(phases, "Done")
    /\ UNCHANGED <<args, lib, inflight, chunks, k, it, chunk_batch, futs, kg_list, widx,
                   wstep, pbar, session, img_it, valid_paths, error, writes,
                   calls, batches>>

(* ------------------------------ graph mode ---------------------------- *)

\* Lines 74-81: the session and the thread pool are opened.
GraphOpen ==
    /\ pc = "graph"
    /\ session' = "open"
    /\ it' = chunks
    /\ pc' = "batch_next"
    /\ UNCHANGED <<args, lib, inflight, chunks, k, chunk_batch, futs, kg_list, widx, wstep,
                   pbar, img_it, valid_paths, error, writes, calls, batches,
                   phases>>

\* Line 82: the next batch of the generator; when it is exhausted the
\* with-block is left (session closed, pool shut down) and the image
\* section follows.
NextBatch ==
    /\ pc = "batch_next"
    /\ LET b == batched(it, effective_batch_size) IN
         IF b.batch = <<>>
         THEN /\ pc' = "image_check"
              /\ session' = "closed"
              /\ UNCHANGED <<it, chunk_batch, futs, kg_list, batches>>
         ELSE /\ pc' = "submit"
              /\ chunk_batch' = b.batch
              /\ it' = b.it
              /\ batches' = Append(batches, b.batch)
              /\ futs' = <<>>
              /\ kg_list' = <<>>
              /\ UNCHANGED session
    /\ UNCHANGED <<args, lib, inflight, chunks, k, widx, wstep, pbar, img_it, valid_paths,
                   error, writes, calls, phases>>

\* A future: the slot idx it is mapped to in the futures dict, the chunk
\* whose text its call was given, and its state.
Future(idx, chunk) ==
    [idx |-> idx, chunk |-> chunk, state |-> "running",
     out |-> Returned(EmptyKG)]

\* Lines 86-91: executor.submit for the next chunk of the batch; after the
\* last one kg_list = [None] * len(chunk_batch) and the main thread waits
\* in as_completed.
Submit ==
    /\ pc = "submit"
    /\ LET idx == Len(futs) + 1 IN
         /\ futs' = Append(futs, Future(idx, chunk_batch[idx]))
         /\ calls' = Append(calls, chunk_batch[idx])
         /\ inflight' = inflight \cup {chunk_batch[idx]}
         /\ IF idx = Len(chunk_batch)
            THEN /\ pc' = "collect"
                 /\ kg_list' = [i \in 1..Len(chunk_batch) |-> None]
            ELSE UNCHANGED <<pc, kg_list>>
    /\ UNCHANGED <<args, lib, chunks, k, it, chunk_batch, widx, wstep, pbar,
                   session, img_it, valid_paths, error, writes, batches,
                   phases>>

\* A worker thread: the extraction call of future f ends, with a result or
\* with an exception.
Complete(f) ==
    /\ f \in DOMAIN futs
    /\ futs[f].state = "running"
    /\ \E a \in Answers :
         futs' = [futs EXCEPT ![f].state = "done",
                              ![f].out = extract_kg_from_chunk(a)]
    /\ inflight' = inflight \ {futs[f].chunk}
    /\ UNCHANGED <<args, lib, pc, chunks, k, it, chunk_batch, kg_list, widx,
                   wstep, pbar, session, img_it, valid_paths, error, writes,
                   calls, batches, phases>>

\* Mutation of SlotOf: results are stored in the order of completion.
SlotOf_ByCompletion(f) ==
    Cardinality({ g \in DOMAIN futs : futs[g].state = "collected" }) + 1

\* Line 94: idx = futures[future].
SlotOf(f) == futs[f].idx

\* Mutation of SlotValue: the except branch stores nothing.
SlotValue_ExceptPass(out) == IF out.raised THEN None ELSE Some(out.kg)

\* Lines 95-98: try: future.result(), except Exception: the slot's value is
\* the result, or the empty result when the call raised.
SlotValue(out) == IF out.raised THEN Some(EmptyKG) ELSE Some(out.kg)

\* Mutation of AllCollected: the loop is left at the first result.
AllCollected_First(fs) == \E g \in DOMAIN fs : fs[g].state = "collected"

\* as_completed is exhausted once every future has been yielded.
AllCollected(fs) == \A g \in DOMAIN fs : fs[g].state = "collected"

\* Line 97: except Exception catches every exception class of the model
\* (each derives from Exception).
ExceptException(exc) ==
    exc \in {"APIError", "AttributeError"} \cup StoreErrors

\* Lines 93-98: as_completed yields a finished future; its result goes to
\* its slot.  After the last future the write loop starts.
Collect(f) ==
    /\ pc = "collect"
    /\ f \in DOMAIN futs
    /\ futs[f].state = "done"
    /\ IF futs[f].out.raised /\ ~ExceptException(futs[f].out.exc)
       THEN /\ Abort(futs[f].out.exc)
            /\ UNCHANGED <<kg_list, futs, widx, wstep>>
       ELSE /\ kg_list' = [kg_list EXCEPT
                             ![SlotOf(f)] = SlotValue(futs[f].out)]
            /\ futs' = [futs EXCEPT ![f].state = "collected"]
            /\ IF AllCollected(futs')
               THEN pc' = "write" /\ widx' = 1 /\ wstep' = "entities"
               ELSE UNCHANGED <<pc, widx, wstep>>
            /\ UNCHANGED <<error, session>>
    /\ UNCHANGED <<args, lib, inflight, chunks, k, it, chunk_batch, pbar, img_it,
                   valid_paths, writes, calls, batches, phases>>

(* --------------------------- the write loop --------------------------- *)

\* Lines 100-105: the chunk and the result the write loop is at
\* (zip(chunk_batch, kg_list)).
\* Mutation of WChunk: the batch is written from its last chunk back.
WChunk_Reversed == chunk_batch[Len(chunk_batch) + 1 - widx]

WChunk == chunk_batch[widx]

\* Mutation of WKg: every chunk is paired with the first result.
WKg_FirstSlot == KgOf(kg_list[1])

WKg == KgOf(kg_list[widx])

\* Mutation of WriteEntities: the entities are not upserted.
WriteEntities_Skipped ==
    /\ pc = "write"
    /\ wstep = "entities"
    /\ wstep' = "relations"
    /\ UNCHANGED <<args, lib, pc, error, session, writes, inflight, chunks, k,
                   it, chunk_batch, futs, kg_list, widx, pbar, img_it,
                   valid_paths, calls, batches, phases>>

\* Lines 107-114: if entities: session.execute_write(upsert_entities, ...).
\* A non-object element raises inside the transaction (nothing is written);
\* the store may refuse the write.  Either exception leaves ingest_docs.
WriteEntities ==
    /\ pc = "write"
    /\ wstep = "entities"
    /\ IF WKg.entities = <<>>
       THEN /\ wstep' = "relations"
            /\ UNCHANGED <<pc, error, session, writes>>
       ELSE IF UpsertRaises(WKg.entities)
       THEN /\ Abort("AttributeError")
            /\ UNCHANGED <<wstep, writes>>
       ELSE \E ok \in BOOLEAN :
              IF ok
              THEN /\ writes' = Append(writes,
                          W("upsert_entities", WChunk, IdsOf(WKg.entities)))
                   /\ wstep' = "relations"
                   /\ UNCHANGED <<pc, error, session>>
              ELSE /\ Abort("Neo4jError")
                   /\ UNCHANGED <<wstep, writes>>
    /\ UNCHANGED <<args, lib, inflight, chunks, k, it, chunk_batch, futs, kg_list, widx,
                   pbar, img_it, valid_paths, calls, batches, phases>>

\* Lines 116-121: if relations: session.execute_write(upsert_relations, ...).
WriteRelations ==
    /\ pc = "write"
    /\ wstep = "relations"
    /\ IF WKg.relations = <<>>
       THEN /\ wstep' = "index"
            /\ UNCHANGED <<pc, error, session, writes>>
       ELSE IF UpsertRaises(WKg.relations)
       THEN /\ Abort("AttributeError")
            /\ UNCHANGED <<wstep, writes>>
       ELSE \E ok \in BOOLEAN :
              IF ok
              THEN /\ writes' = Append(writes,
                          W("upsert_relations", WChunk, IdsOf(WKg.relations)))
                   /\ wstep' = "index"
                   /\ UNCHANGED <<pc, error, session>>
              ELSE /\ Abort("Neo4jError")
                   /\ UNCHANGED <<wstep, writes>>
    /\ UNCHANGED <<args, lib, inflight, chunks, k, it, chunk_batch, futs, kg_list, widx,
                   pbar, img_it, valid_paths, calls, batches, phases>>

\* Mutation of BatchProgress: the counter advances by the batch size asked
\* for.
BatchProgress_BatchSize == effective_batch_size

\* Line 126: pbar.update(len(chunk_batch)), after the write loop of the
\* batch.
BatchProgress == Len(chunk_batch)

\* Lines 123-126: index_chunk(chunk, entity_ids); after the last chunk of
\* the batch pbar.update(len(chunk_batch)) and the next batch is asked for.
IndexChunk ==
    /\ pc = "write"
    /\ wstep = "index"
    /\ \E ok \in BOOLEAN :
         IF ok
         THEN /\ writes' = Append(writes,
                     W("index_chunk", WChunk, entity_ids(WKg.entities)))
              /\ wstep' = "entities"
              /\ IF widx < Len(chunk_batch)
                 THEN widx' = widx + 1 /\ UNCHANGED <<pc, pbar>>
                 ELSE /\ widx' = 1
                      /\ pbar' = pbar + BatchProgress
                      /\ pc' = "batch_next"
              /\ UNCHANGED <<error, session>>
         ELSE /\ Abort("HTTPError")
              /\ UNCHANGED <<wstep, widx, pbar, writes>>
    /\ UNCHANGED <<args, lib, inflight, chunks, k, it, chunk_batch, futs, kg_list, img_it,
                   valid_paths, calls, batches, phases>>

(* ---------------------------- image ingestion ------------------------- *)

\* Lines 130-133: without an assets folder ingest_docs returns.
ImageCheck ==
    /\ pc = "image_check"
    /\ IF assets
         THEN pc' = "image_setup" /\ phases' = Append(phases, "ImageIndexing")
         ELSE pc' = "done" /\ phases' = Append(phases, "Done")
    /\ UNCHANGED <<args, lib, inflight, chunks, k, it, chunk_batch, futs, kg_list, widx,
                   wstep, pbar, session, img_it, valid_paths, error, writes,
                   calls, batches>>

\* Lines 135-145: create_image_index (delete, put), then the image files
\* are listed; with none ingest_docs returns.
ImageSetup ==
    /\ pc = "image_setup"
    /\ \E ok \in BOOLEAN :
         IF ok
         THEN /\ writes' = writes \o <<W("delete_image_index", 0, <<>>),
                                       W("put_image_index", 0, <<>>)>>
              /\ \E m \in 0..MaxImages :
                   /\ img_it' = [i \in 1..m |-> i]
                   /\ IF m = 0
                      THEN pc' = "done" /\ phases' = Append(phases, "Done")
                      ELSE pc' = "image_batch" /\ UNCHANGED phases
              /\ UNCHANGED <<error, session>>
         ELSE /\ writes' = Append(writes, W("delete_image_index", 0, <<>>))
              /\ Abort("HTTPError")
              /\ UNCHANGED <<img_it, phases>>
    /\ UNCHANGED <<args, lib, inflight, chunks, k, it, chunk_batch, futs, kg_list, widx,
                   wstep, pbar, valid_paths, calls, batches>>

\* The subsequences of a batch: the images that decode, in order.
Decoded(batch) ==
    { SelectSeq(batch, LAMBDA p : p \in good) : good \in SUBSET Range(batch) }

\* Lines 148-164: the next image batch; images that fail to decode are
\* skipped; the batch is skipped when none decodes; the generator's end
\* ends ingest_docs.
ImageBatch ==
    /\ pc = "image_batch"
    /\ LET b == batched(img_it, ImageBatchSize) IN
         IF b.batch = <<>>
         THEN /\ pc' = "done"
              /\ phases' = Append(phases, "Done")
              /\ UNCHANGED <<img_it, valid_paths>>
         ELSE /\ img_it' = b.it
              /\ \E v \in Decoded(b.batch) :
                   /\ valid_paths' = v
                   /\ pc' = IF v = <<>> THEN "image_batch" ELSE "image_index"
              /\ UNCHANGED phases
    /\ UNCHANGED <<args, lib, inflight, chunks, k, it, chunk_batch, futs, kg_list, widx,
                   wstep, pbar, session, error, writes, calls, batches>>

\* Lines 166-176: index_image for the next decoded image of the batch.
IndexImage ==
    /\ pc = "image_index"
    /\ \E ok \in BOOLEAN :
         IF ok
         THEN /\ writes' = Append(writes,
                                  W("index_image", Head(valid_paths), <<>>))
              /\ valid_paths' = Tail(valid_paths)
              /\ pc' = IF Tail(valid_paths) = <<>>
                       THEN "image_batch" ELSE "image_index"
              /\ UNCHANGED <<error, session>>
         ELSE /\ Abort("HTTPError")
              /\ UNCHANGED <<writes, valid_paths>>
    /\ UNCHANGED <<args, lib, inflight, chunks, k, it, chunk_batch, futs, kg_list, widx,
                   wstep, pbar, img_it, calls, batches, phases>>

(* ---------------------------- specification --------------------------- *)

Next ==
    \/ CreateIndex
    \/ Chunk
    \/ PlainIndexChunk
    \/ PlainReturn
    \/ GraphOpen
    \/ NextBatch
    \/ Submit
    \/ \E f \in DOMAIN futs : Complete(f)
    \/ \E f \in DOMAIN futs : Collect(f)
    \/ WriteEntities
    \/ WriteRelations
    \/ IndexChunk
    \/ ImageCheck
    \/ ImageSetup
    \/ ImageBatch
    \/ IndexImage

Spec == Init /\ [][Next]_vars

\* extract_graph.py lines 125-133, ingest_pipeline.py lines 93-95: the
\* completion call of future f never returns.  The call is made without a
\* timeout argument, and neither as_completed(futures) nor future.result()
\* is given one, so nothing in the code ends the wait.
Hang(f) ==
    /\ f \in DOMAIN futs
    /\ futs[f].state = "running"
    /\ futs' = [futs EXCEPT ![f].state = "hung"]
    /\ UNCHANGED <<args, lib, pc, chunks, k, it, chunk_batch, kg_list, widx,
                   wstep, pbar, session, img_it, valid_paths, inflight,
                   error, writes, calls, batches, phases>>

NextHang ==
    \/ Next
    \/ \E f \in DOMAIN futs : Hang(f)

\* ingest_docs with an extraction service that may leave a call unanswered.
SpecHang == Init /\ [][NextHang]_vars

(* ============================ create_graph.py ========================== *)

\* How many upsert_* calls a run of the graph store model makes.
MaxUpserts == 2

\* Python None, Cypher null, a property a node or an edge does not have.
Null == "<null>"

\* dict.get(key, default)
Get(d, key, default) == IF key \in DOMAIN d THEN d[key] ELSE default

\* The "extra" dictionaries of the model: {} and {"k": "v"}.
EmptyDict == <<>>

SomeDict == <<"k", "v">>

\* Line 15: json.dumps(extra_dict), on the dictionaries of the model.
JsonDumps(d) == IF d = EmptyDict THEN "{}" ELSE "{\"k\": \"v\"}"

\* Lines 14-15: extra_dict = ent.get("extra") or {}; json.dumps(extra_dict).
\* A missing, None or empty "extra" gives "{}".
ExtraJson(ent) ==
    JsonDumps(IF "extra" \in DOMAIN ent /\ ent.extra # EmptyDict
              THEN ent.extra ELSE EmptyDict)

\* The entity objects an extraction result may hold: full, without
\* description and extra, with a null description and an empty extra,
\* and without id.
Entities ==
    { [id |-> "a", name |-> "A1", type |-> "class", description |-> "d1",
       extra |-> SomeDict],
      [id |-> "a", name |-> "A2", type |-> "function"],
      [id |-> "b", name |-> "B", type |-> "class", description |-> Null,
       extra |-> EmptyDict],
      [name |-> "X", type |-> "class"] }

\* The entity lists of the calls: one entity, an id observed twice in one
\* list, two ids, an entity without id after a good one.
EntityLists ==
    { <<e>> : e \in { x \in Entities : "id" \in DOMAIN x } }
    \cup { <<[id |-> "a", name |-> "A1", type |-> "class",
              description |-> "d1", extra |-> SomeDict],
             [id |-> "a", name |-> "A2", type |-> "function"]>>,
           <<[id |-> "b", name |-> "B", type |-> "class",
              description |-> Null, extra |-> EmptyDict],
             [name |-> "X", type |-> "class"]>> }

\* The relation objects: between upserted entities, to an id no entity
\* list holds, a self-loop without description, and one without object.
Relations ==
    { [subject |-> "a", predicate |-> "uses", object |-> "b",
       description |-> "r1"],
      [subject |-> "b", predicate |-> "uses", object |-> "c",
       description |-> "r2"],
      [subject |-> "a", predicate |-> "uses", object |-> "a"],
      [subject |-> "a", predicate |-> "uses"] }

RelationLists ==
    { <<r>> : r \in Relations }
    \cup { <<[subject |-> "a", predicate |-> "uses", object |-> "b",
              description |-> "r1"],
             [subject |-> "a", predicate |-> "uses", object |-> "b"]>> }

\* ingest_pipeline.py lines 107-121: the chunk fields a call is given.
Contexts ==
    { [source_file |-> "a.md", section_path |-> "T > A", doc_id |-> "d1"],
      [source_file |-> "b.md", section_path |-> "T > B", doc_id |-> "d2"],
      [source_file |-> Null, section_path |-> "T > A", doc_id |-> "d1"] }

\* A node MERGE has just created: the id and no other property.
Bare(id) ==
    [id |-> id, name |-> Null, type |-> Null, description |-> Null,
     extra |-> Null, source_files |-> None, section_paths |-> None,
     doc_ids |-> None]

HasNode(nodes, id) == \E i \in 1..Len(nodes) : nodes[i].id = id

\* Mutation of MergeNode: CREATE in place of MERGE.
MergeNode_Create(nodes, id) == Append(nodes, Bare(id))

\* Lines 19, 50, 51: MERGE (e:DocEntity {id: $id}): the node with this id,
\* created bare when there is none.
MergeNode(nodes, id) ==
    IF HasNode(nodes, id) THEN nodes ELSE Append(nodes, Bare(id))

\* coalesce(x, [])
Coalesce(opt) == IF opt = None THEN <<>> ELSE opt[1]

\* Mutation of AppendProv: a value already in the list is not added again.
AppendProv_IfAbsent(opt, v) ==
    Some(Coalesce(opt) \o (IF v = Null \/ v \in Range(Coalesce(opt))
                           THEN <<>> ELSE <<v>>))

\* Lines 24-29, 54-55: coalesce(x, []) + CASE WHEN $v IS NULL THEN []
\* ELSE [$v] END
AppendProv(opt, v) ==
    Some(Coalesce(opt) \o (IF v = Null THEN <<>> ELSE <<v>>))

\* Lines 20-29, 31-38: the SET clause of upsert_entities on a node.
SetEntity(node, ent, source_file, section_path, doc_id) ==
    [id |-> node.id,
     name |-> Get(ent, "name", Null),
     type |-> Get(ent, "type", Null),
     description |-> Get(ent, "description", ""),
     extra |-> ExtraJson(ent),
     source_files |-> AppendProv(node.source_files, source_file),
     section_paths |-> AppendProv(node.section_paths, section_path),
     doc_ids |-> AppendProv(node.doc_ids, doc_id)]

\* Lines 17-38: tx.run for one entity.
UpsertEntity(tx, ent, source_file, section_path, doc_id) ==
    LET ns == MergeNode(tx.nodes, ent.id) IN
    [tx EXCEPT !.nodes =
        [i \in 1..Len(ns) |->
            IF ns[i].id = ent.id
            THEN SetEntity(ns[i], ent, source_file, section_path, doc_id)
            ELSE ns[i]]]

\* Lines 12-39: for ent in entities: tx.run(...).
RECURSIVE upsert_entities(_, _, _, _, _)
upsert_entities(tx, entities, source_file, section_path, doc_id) ==
    IF entities = <<>> THEN tx
    ELSE upsert_entities(
             UpsertEntity(tx, Head(entities), source_file, section_path,
                          doc_id),
             Tail(entities), source_file, section_path, doc_id)

HasEdge(edges, rel) ==
    \E i \in 1..Len(edges) :
        /\ edges[i].subject = rel.subject
        /\ edges[i].predicate = rel.predicate
        /\ edges[i].object = rel.object

NewEdge(rel) ==
    [subject |-> rel.subject, predicate |-> rel.predicate,
     object |-> rel.object, description |-> Null, source_files |-> None]

\* Mutation of MergeEdge: CREATE in place of MERGE.
MergeEdge_Create(edges, rel) == Append(edges, NewEdge(rel))

\* Line 52: MERGE (s)-[r:DOC_REL {predicate: $predicate}]->(o): the edge
\* with this predicate between the two nodes, created when there is none.
MergeEdge(edges, rel) ==
    IF HasEdge(edges, rel) THEN edges ELSE Append(edges, NewEdge(rel))

\* Lines 53-55: the SET clause of upsert_relations on an edge.
SetRelation(edge, rel, source_file) ==
    [edge EXCEPT !.description = Get(rel, "description", ""),
                 !.source_files = AppendProv(edge.source_files, source_file)]

\* Lines 48-62: tx.run for one relation: both nodes and the edge are
\* merged, the edge is set.
UpsertRelation(tx, rel, source_file) ==
    LET ns == MergeNode(MergeNode(tx.nodes, rel.subject), rel.object)
        es == MergeEdge(tx.edges, rel)
    IN  [nodes |-> ns,
         edges |-> [i \in 1..Len(es) |->
                      IF /\ es[i].subject = rel.subject
                         /\ es[i].predicate = rel.predicate
                         /\ es[i].object = rel.object
                      THEN SetRelation(es[i], rel, source_file)
                      ELSE es[i]]]

\* Lines 42-62: for rel in relations: tx.run(...).
RECURSIVE upsert_relations(_, _, _)
upsert_relations(tx, relations, source_file) ==
    IF relations = <<>> THEN tx
    ELSE upsert_relations(UpsertRelation(tx, Head(relations), source_file),
                          Tail(relations), source_file)

\* Lines 19, 50-52: MERGE on a null property value is refused by the store:
\* the statement raises and the transaction of the call is rolled back.
MergeRaises(items, keys) ==
    \E i \in 1..Len(items) : \E key \in keys : Get(items[i], key, Null) = Null

\* A call as the log of the model keeps it.
Call(op, items, source_file, section_path, doc_id, raised) ==
    [op |-> op, items |-> items, source_file |-> source_file,
     section_path |-> section_path, doc_id |-> doc_id, raised |-> raised]

\* session.execute_write(upsert_entities, entities, source_file,
\* section_path, doc_id): the transaction commits, or raises and changes
\* nothing.
UpsertEntities ==
    /\ Len(upserts) < MaxUpserts
    /\ \E entities \in EntityLists, c \in Contexts :
         LET raised == MergeRaises(entities, {"id"}) IN
         /\ upserts' = Append(upserts,
                Call("upsert_entities", entities, c.source_file,
                     c.section_path, c.doc_id, raised))
         /\ graph' = IF raised THEN graph
                     ELSE upsert_entities(graph, entities, c.source_file,
                                          c.section_path, c.doc_id)
    /\ UNCHANGED <<ingest, win, chunker, hash, walk>>

\* session.execute_write(upsert_relations, relations, source_file)
UpsertRelations ==
    /\ Len(upserts) < MaxUpserts
    /\ \E relations \in RelationLists, c \in Contexts :
         LET raised ==
                 MergeRaises(relations, {"subject", "predicate", "object"})
         IN
         /\ upserts' = Append(upserts,
                Call("upsert_relations", relations, c.source_file, Null,
                     Null, raised))
         /\ graph' = IF raised THEN graph
                     ELSE upsert_relations(graph, relations, c.source_file)
    /\ UNCHANGED <<ingest, win, chunker, hash, walk>>

\* ingest_docs is not running.
NotIngesting ==
    /\ enable_graph = FALSE
    /\ batch_size = 0
    /\ assets = FALSE
    /\ IngestStart

InitGraph ==
    /\ NotIngesting
    /\ LibIdle

NextGraph ==
    \/ UpsertEntities
    \/ UpsertRelations

\* The graph store under any sequence of upsert_* transactions.
SpecGraph == InitGraph /\ [][NextGraph]_vars

(* ======================= chunker.py: _char_windows ===================== *)

\* The longest string and the largest window size of the small calls.
MaxLen == 7

MaxSize == 3

\* Line 70: the defaults of SectionChunker.
chunk_chars == 800

overlap_chars == 120

\* The frame of _char_windows(s, size, overlap) at its call; of s only
\* n = len(s) is used.
Frame(n, size, overlap) ==
    [pc |-> "called", n |-> n, size |-> size, overlap |-> overlap,
     i |-> 0, out |-> <<>>]

\* The calls of the model: every small one, the arguments the assert
\* refuses included, and a string of 2000 characters with the defaults.
WindowCalls ==
    { Frame(n, size, overlap) :
        n \in 0..MaxLen, size \in 0..MaxSize, overlap \in 0..MaxSize }
    \cup { Frame(2000, chunk_chars, overlap_chars) }

\* Line 48: assert size > 0 and 0 <= overlap < size
CharWindowsAssert ==
    /\ win.pc = "called"
    /\ win' = [win EXCEPT !.pc =
                 IF win.size > 0 /\ 0 <= win.overlap /\ win.overlap < win.size
                 THEN "while" ELSE "AssertionError"]
    /\ UNCHANGED <<ingest, graph, upserts, chunker, hash, walk>>

\* Mutation of WindowEnd: the window is not clipped to the string.
WindowEnd_Unclipped(i, size, n) == i + size

\* Line 52: j = min(i + size, n)
WindowEnd(i, size, n) == Min(i + size, n)

\* Mutation of NextStart: the overlap alone decides the next start.
NextStart_OverlapOnly(i, j, overlap) == Max(j - overlap - 1, i)

\* Mutation of NextStart: the next window starts where the last one ended.
NextStart_NoOverlap(i, j, overlap) == Max(j, i + 1)

\* Line 56: i = max(j - overlap, i + 1)
NextStart(i, j, overlap) == Max(j - overlap, i + 1)

\* Lines 51-57: one iteration of the while loop, or its end and the return.
CharWindowsLoop ==
    /\ win.pc = "while"
    /\ IF win.i < win.n
       THEN LET j == WindowEnd(win.i, win.size, win.n) IN
            win' = [win EXCEPT
                      !.out = Append(win.out, <<win.i, j>>),
                      !.pc = IF j >= win.n THEN "returned" ELSE "while",
                      !.i = IF j >= win.n THEN win.i
                            ELSE NextStart(win.i, j, win.overlap)]
       ELSE win' = [win EXCEPT !.pc = "returned"]
    /\ UNCHANGED <<ingest, graph, upserts, chunker, hash, walk>>

InitWindows ==
    /\ NotIngesting
    /\ GraphEmpty
    /\ win \in WindowCalls
    /\ chunker = NoFrame
    /\ hash = NoFrame
    /\ walk = NoFrame

NextWindows ==
    \/ CharWindowsAssert
    \/ CharWindowsLoop

\* _char_windows on its own, one call per behaviour.
SpecWindows == InitWindows /\ [][NextWindows]_vars

\* The same, with the call running on: the thread that made the call keeps
\* executing it.
SpecWindowsLive == SpecWindows /\ WF_vars(NextWindows)

(* ========================= chunker.py: _hash_id ======================== *)

\* The longest part and the largest number of parts of the small calls.
MaxStrLen == 2

MaxParts == 2

\* A string is the sequence of its characters.
Chars == {"a", ":"}

Strings == UNION { [1..n -> Chars] : n \in 0..MaxStrLen }

\* Line 11: the separator "::"
Sep == <<":", ":">>

\* Line 11: sep.join(parts)
RECURSIVE Join(_, _)
Join(sep, parts) ==
    IF parts = <<>> THEN <<>>
    ELSE IF Len(parts) = 1 THEN parts[1]
    ELSE parts[1] \o sep \o Join(sep, Tail(parts))

\* Line 11: hashlib.sha1(b).hexdigest()[:n], as a digest no two strings
\* share: a string of one character that stands for the hexadecimal
\* digits and is no character of any other string.
Digest(string) == <<[sha1 |-> string]>>

\* Lines 10-11: _hash_id(*parts)
hash_id(parts) == Digest(Join(Sep, parts))

\* The calls of the model: every sequence of up to MaxParts small parts.
HashCalls ==
    { [pc |-> "called", parts |-> parts] :
        parts \in UNION { [1..n -> Strings] : n \in 0..MaxParts } }

\* Lines 10-11: the call returns the id of its parts.
HashId ==
    /\ hash.pc = "called"
    /\ hash' = [pc |-> "returned", parts |-> hash.parts,
                id |-> hash_id(hash.parts)]
    /\ UNCHANGED <<ingest, graph, upserts, win, chunker, walk>>

InitHash ==
    /\ NotIngesting
    /\ GraphEmpty
    /\ win = NoFrame
    /\ chunker = NoFrame
    /\ hash \in HashCalls
    /\ walk = NoFrame

NextHash == HashId

\* _hash_id on its own, one call per behaviour.
SpecHash == InitHash /\ [][NextHash]_vars

(* ======================== chunker.py: the chunker ====================== *)

\* The largest number of lines of the small documents.
MaxLines == 3

\* \s of the regular expressions, str.strip(): the whitespace of the model.
IsSpace(c) == c \in {" ", "\n"}

RECURSIVE LStrip(_)
LStrip(string) ==
    IF string # <<>> /\ IsSpace(Head(string))
    THEN LStrip(Tail(string)) ELSE string

RECURSIVE RStrip(_)
RStrip(string) ==
    IF string # <<>> /\ IsSpace(string[Len(string)])
    THEN RStrip(SubSeq(string, 1, Len(string) - 1)) ELSE string

\* str.strip()
Strip(string) == RStrip(LStrip(string))

\* The number of "#" a line starts with.
RECURSIVE LeadingHashes(_)
LeadingHashes(ln) ==
    IF ln # <<>> /\ Head(ln) = "#" THEN 1 + LeadingHashes(Tail(ln)) ELSE 0

\* Lines 6, 34: H_RE.match(ln), ^(#{1,6})\s+(.*)$: one to six "#", then
\* whitespace.
HeadingMatch(ln) ==
    LET h == LeadingHashes(ln)
    IN  /\ 1 <= h
        /\ h <= 6
        /\ Len(ln) > h
        /\ IsSpace(ln[h + 1])

\* Line 38: level = len(m.group(1))
HeadingLevel(ln) == LeadingHashes(ln)

\* Line 39: text = m.group(2).strip()
HeadingText(ln) == Strip(SubSeq(ln, LeadingHashes(ln) + 1, Len(ln)))

\* Mutation of NewPath: the title is appended to the whole path.
NewPath_Append(path, level, text) == Append(path, text)

\* Line 40: path = path[:level-1] + [text]
NewPath(path, level, text) ==
    SubSeq(path, 1, Min(level - 1, Len(path))) \o <<text>>

Root == <<"(", "r", "o", "o", "t", ")">>

\* Line 28: " > ".join([p for p in path if p]) or "(root)"
SectionPath(path) ==
    LET joined == Join(<<" ", ">", " ">>,
                       SelectSeq(path, LAMBDA part : part # <<>>))
    IN  IF joined = <<>> THEN Root ELSE joined

\* Mutation of Flush: a buffer becomes a section when its text is not blank.
Flush_NonBlank(sections, path, buf) ==
    IF Strip(Join(<<"\n">>, buf)) # <<>>
    THEN Append(sections,
                [path |-> SectionPath(path),
                 text |-> Strip(Join(<<"\n">>, buf)) \o <<"\n">>])
    ELSE sections

\* Lines 24-31: flush(): a non-empty buffer becomes a section.
Flush(sections, path, buf) ==
    IF buf # <<>>
    THEN Append(sections,
                [path |-> SectionPath(path),
                 text |-> Strip(Join(<<"\n">>, buf)) \o <<"\n">>])
    ELSE sections

\* Lines 33-45: the loop over the lines, then the last flush.
RECURSIVE SplitLines(_, _, _, _)
SplitLines(lines, path, buf, sections) ==
    IF lines = <<>> THEN Flush(sections, path, buf)
    ELSE LET ln == Head(lines) IN
         IF HeadingMatch(ln)
         THEN SplitLines(Tail(lines),
                         NewPath(path, HeadingLevel(ln), HeadingText(ln)),
                         <<ln>>, Flush(sections, path, buf))
         ELSE SplitLines(Tail(lines), path, Append(buf, ln), sections)

\* Lines 18-45: _split_sections(md), md given as md.splitlines().
split_sections(lines) == SplitLines(lines, <<>>, <<>>, <<>>)

\* re.IGNORECASE, on the letters of the model's documents.
Lower(c) ==
    CASE c = "S" -> "s"
      [] c = "T" -> "t"
      [] OTHER -> c

StartsWithLower(string, prefix) ==
    /\ Len(string) >= Len(prefix)
    /\ \A p \in 1..Len(prefix) : Lower(string[p]) = prefix[p]

\* \S+ at the start of a string
RECURSIVE TakeNonSpace(_)
TakeNonSpace(string) ==
    IF string # <<>> /\ ~IsSpace(Head(string))
    THEN <<Head(string)>> \o TakeNonSpace(Tail(string)) ELSE <<>>

\* What follows "Source:" and whitespace in a string that starts with ">":
\* \s* also passes line ends.
AfterSource(string) ==
    LET rest == LStrip(Tail(string))
    IN  LStrip(SubSeq(rest, 8, Len(rest)))

\* Line 8: SOURCE_RE, ^>\s*Source:\s*(\S+), matches at the start of the
\* string.
SourceMatch(string) ==
    /\ string # <<>>
    /\ Head(string) = ">"
    /\ StartsWithLower(LStrip(Tail(string)),
                       <<"s", "o", "u", "r", "c", "e", ":">>)
    /\ AfterSource(string) # <<>>

\* Lines 15-16: SOURCE_RE.search(md), s.group(1).strip(): the group of the
\* first match, which starts at a line start (re.MULTILINE); the empty
\* string for None.
SourceUrl(lines) ==
    LET md == Join(<<"\n">>, lines)
        from(p) == SubSeq(md, p, Len(md))
        starts == { p \in 1..Len(md) :
                      /\ (p = 1 \/ md[p - 1] = "\n")
                      /\ md[p] = ">"
                      /\ SourceMatch(from(p)) }
    IN  IF starts = {} THEN <<>>
        ELSE TakeNonSpace(AfterSource(
                 from(CHOOSE p \in starts : \A q \in starts : p <= q)))

\* Lines 79-80: doc_key = url or source_file
DocKey(lines, source_file) ==
    IF SourceUrl(lines) # <<>> THEN SourceUrl(lines) ELSE source_file

\* Lines 50-57: the windows from start i on.
RECURSIVE CharWindows(_, _, _, _)
CharWindows(i, n, size, overlap) ==
    IF i < n
    THEN LET j == WindowEnd(i, size, n) IN
         <<<<i, j>>>> \o (IF j >= n THEN <<>>
                          ELSE CharWindows(NextStart(i, j, overlap), n,
                                           size, overlap))
    ELSE <<>>

\* Lines 47-57: _char_windows(s, size, overlap), for arguments its assert
\* accepts.
char_windows(string, size, overlap) ==
    CharWindows(0, Len(string), size, overlap)

\* str(idx)
RECURSIVE Str(_)
Str(n) ==
    LET digit(d) == <<"0", "1", "2", "3", "4", "5", "6", "7", "8", "9">>[d + 1]
    IN  IF n < 10 THEN <<digit(n)>>
        ELSE Str(n \div 10) \o <<digit(n % 10)>>

\* Lines 59-65, 92-100: the Chunk of a piece.
NewChunk(doc_id, piece, source_file, sec_path, idx) ==
    [chunk_id |-> hash_id(<<doc_id, sec_path, Str(idx)>>),
     doc_id |-> doc_id, text |-> piece, source_file |-> source_file,
     section_path |-> sec_path]

\* Lines 88-102: the loop over the windows of a section, from the list of
\* chunks and the counter idx it starts with: a piece that is empty after
\* strip() is skipped, any other becomes a chunk and advances idx.
RECURSIVE WindowChunks(_, _, _, _, _)
\* Mutation of WindowChunks: a skipped piece uses up an index.
WindowChunks_SkipCounts(windows, sec, doc_id, source_file, acc) ==
    IF windows = <<>> THEN acc
    ELSE LET ws == Head(windows)[1]
             we == Head(windows)[2]
             piece == Strip(SubSeq(sec.text, ws + 1, we))
         IN  WindowChunks(Tail(windows), sec, doc_id, source_file,
                 IF piece = <<>>
                 THEN [chunks |-> acc.chunks, idx |-> acc.idx + 1]
                 ELSE [chunks |-> Append(acc.chunks,
                                    NewChunk(doc_id, piece, source_file,
                                             sec.path, acc.idx)),
                       idx |-> acc.idx + 1])

WindowChunks(windows, sec, doc_id, source_file, acc) ==
    IF windows = <<>> THEN acc
    ELSE LET ws == Head(windows)[1]
             we == Head(windows)[2]
             piece == Strip(SubSeq(sec.text, ws + 1, we))
         IN  WindowChunks(Tail(windows), sec, doc_id, source_file,
                 IF piece = <<>> THEN acc
                 ELSE [chunks |-> Append(acc.chunks,
                                    NewChunk(doc_id, piece, source_file,
                                             sec.path, acc.idx)),
                       idx |-> acc.idx + 1])

\* The frame of chunk_markdown_text(md_text, source_file) of a
\* SectionChunker(size, over) at its call; md_text as md_text.splitlines().
ChunkerFrame(md_text, source_file, size, over) ==
    [pc |-> "called", md_text |-> md_text, source_file |-> source_file,
     size |-> size, over |-> over, doc_id |-> <<>>, sections |-> <<>>,
     sec |-> 1, chunks |-> <<>>, idx |-> 0, counts |-> <<>>]

\* The lines of the small documents: headings of levels 1, 2 and 3, a line
\* of prose, a blank line, a Source line and a Source line without URL.
SmallLines ==
    { <<"#", " ", "T">>,
      <<"#", "#", " ", "S">>,
      <<"#", "#", "#", " ", "D">>,
      <<"x", " ", "y", "z">>,
      <<>>,
      <<">", " ", "S", "o", "u", "r", "c", "e", ":", " ", "u">>,
      <<">", "s", "o", "u", "r", "c", "e", ":">> }

\* A document with one "# Title", a "> Source: https://x/y" line and two
\* "## Section" headings, each followed by 1000 characters of prose.
Prose(n) == [p \in 1..n |-> "x"]

EndToEndDoc ==
    << <<"#", " ", "T", "i", "t", "l", "e">>,
       <<">", " ", "S", "o", "u", "r", "c", "e", ":", " ",
         "h", "t", "t", "p", "s", ":", "/", "/", "x", "/", "y">>,
       <<"#", "#", " ", "S", "e", "c", "t", "i", "o", "n">>,
       Prose(1000),
       <<"#", "#", " ", "S", "e", "c", "t", "i", "o", "n">>,
       Prose(1000) >>

\* The calls of the model: every small document under every small chunker
\* whose size and overlap __init__ accepts (line 72), and the document
\* above under the default chunker.
ChunkerCalls ==
    { ChunkerFrame(md_text, <<"f">>, sz[1], sz[2]) :
        md_text \in UNION { [1..n -> SmallLines] : n \in 0..MaxLines },
        sz \in { x \in (1..MaxSize) \X (0..MaxSize) : x[2] < x[1] } }
    \cup { ChunkerFrame(EndToEndDoc, <<"f">>, chunk_chars, overlap_chars) }

\* Lines 79-86: doc_id and the sections.
ChunkMarkdownText ==
    /\ chunker.pc = "called"
    /\ chunker' = [chunker EXCEPT
          !.pc = "for",
          !.doc_id = hash_id(<<DocKey(chunker.md_text,
                                      chunker.source_file)>>),
          !.sections = split_sections(chunker.md_text)]
    /\ UNCHANGED <<ingest, graph, upserts, win, hash, walk>>

\* Lines 87-103: the next section is cut into windows and its pieces are
\* appended; after the last section the chunks are returned.
ChunkSection ==
    /\ chunker.pc = "for"
    /\ IF chunker.sec > Len(chunker.sections)
       THEN chunker' = [chunker EXCEPT !.pc = "returned"]
       ELSE LET sec == chunker.sections[chunker.sec]
                acc == WindowChunks(
                           char_windows(sec.text, chunker.size,
                                        chunker.over),
                           sec, chunker.doc_id, chunker.source_file,
                           [chunks |-> chunker.chunks,
                            idx |-> chunker.idx])
            IN  chunker' = [chunker EXCEPT
                    !.chunks = acc.chunks,
                    !.idx = acc.idx,
                    !.sec = chunker.sec + 1,
                    !.counts = Append(chunker.counts,
                                      acc.idx - chunker.idx)]
    /\ UNCHANGED <<ingest, graph, upserts, win, hash, walk>>

InitChunker ==
    /\ NotIngesting
    /\ GraphEmpty
    /\ win = NoFrame
    /\ chunker \in ChunkerCalls
    /\ hash = NoFrame
    /\ walk = NoFrame

NextChunker ==
    \/ ChunkMarkdownText
    \/ ChunkSection

\* chunk_markdown_text on its own, one call per behaviour.
SpecChunker == InitChunker /\ [][NextChunker]_vars

(* ======================== chunker.py: chunk_dir ======================== *)

\* The largest number of files of a document tree.
MaxFiles == 3

\* Lines 87-102: the loop over the sections.
RECURSIVE SectionsChunks(_, _, _, _, _, _)
SectionsChunks(sections, doc_id, source_file, size, over, acc) ==
    IF sections = <<>> THEN acc
    ELSE SectionsChunks(Tail(sections), doc_id, source_file, size, over,
             WindowChunks(char_windows(Head(sections).text, size, over),
                          Head(sections), doc_id, source_file, acc))

\* Lines 77-103: chunk_markdown_text(md_text, source_file) of a
\* SectionChunker(size, over).
chunk_markdown_text(md_text, source_file, size, over) ==
    SectionsChunks(split_sections(md_text),
                   hash_id(<<DocKey(md_text, source_file)>>),
                   source_file, size, over,
                   [chunks |-> <<>>, idx |-> 0]).chunks

\* The characters of the paths of the model, in code point order.
CodePoints == <<".", "/", "a", "b", "d", "e", "m", "s", "t", "u", "x">>

Ord(c) == CHOOSE n \in 1..Len(CodePoints) : CodePoints[n] = c

\* str < str
RECURSIVE StrLess(_, _)
StrLess(a, b) ==
    IF b = <<>> THEN FALSE
    ELSE IF a = <<>> THEN TRUE
    ELSE IF Head(a) = Head(b) THEN StrLess(Tail(a), Tail(b))
    ELSE Ord(Head(a)) < Ord(Head(b))

\* Path < Path for paths under one root: the sequences of their parts are
\* compared, part by part.
RECURSIVE PathLess(_, _)
PathLess(a, b) ==
    IF b = <<>> THEN FALSE
    ELSE IF a = <<>> THEN TRUE
    ELSE IF Head(a) = Head(b) THEN PathLess(Tail(a), Tail(b))
    ELSE StrLess(Head(a), Head(b))

\* The names of the model.
Assets == <<"a", "s", "s", "e", "t", "s">>

Sub == <<"s", "u", "b">>

AMd == <<"a", ".", "m", "d">>

BMd == <<"b", ".", "m", "d">>

SubMd == <<"s", "u", "b", ".", "m", "d">>

ATxt == <<"a", ".", "t", "x", "t">>

\* The files a tree may hold, as the parts of their paths below the root:
\* at the root, in root/assets, in a folder, in an assets folder of that
\* folder, one named as the folder plus ".md", and one that is no .md file.
TreeFiles ==
    { <<AMd>>, <<Assets, AMd>>, <<Sub, BMd>>, <<Sub, Assets, BMd>>,
      <<SubMd>>, <<ATxt>> }

\* The roots chunk_dir is called with: /d, d, . and /assets/d
Roots ==
    { [abs |-> TRUE, parts |-> <<<<"d">>>>],
      [abs |-> FALSE, parts |-> <<<<"d">>>>],
      [abs |-> FALSE, parts |-> <<>>],
      [abs |-> TRUE, parts |-> <<Assets, <<"d">>>>] }

\* Line 110: p.read_text(): what the files hold.
ReadText(rel) ==
    IF rel[Len(rel)] = AMd
    THEN << <<"#", " ", "T">>, <<"x", " ", "y", "z">> >>
    ELSE << <<">", " ", "S", "o", "u", "r", "c", "e", ":", " ", "u">>,
            <<"#", "#", " ", "S">>, <<"x", " ", "y", "z">> >>

\* Line 107: "*.md"
IsMd(rel) ==
    LET name == rel[Len(rel)]
    IN  /\ Len(name) >= 3
        /\ SubSeq(name, Len(name) - 2, Len(name)) = <<".", "m", "d">>

\* Line 108: p.as_posix() of p = root / rel
AsPosix(root, rel) ==
    LET parts == root.parts \o rel
    IN  IF root.abs THEN <<"/">> \o Join(<<"/">>, parts)
        ELSE Join(<<"/">>, parts)

\* Line 108: sub in string
Contains(string, sub) ==
    \E n \in 1..(Len(string) - Len(sub) + 1) :
        SubSeq(string, n, n + Len(sub) - 1) = sub

\* Line 108: "/assets/" in p.as_posix()
Skipped(root, rel) == Contains(AsPosix(root, rel), <<"/">> \o Assets \o <<"/">>)

\* Line 111: rel = str(p.relative_to(root))
RelStr(rel) == Join(<<"/">>, rel)

\* Mutation of Sorted: the files are visited as rglob lists them.
Sorted_AsListed(listing) == listing

\* Line 107: sorted(paths): each path at the place its rank gives it.
Sorted(listing) ==
    [n \in 1..Len(listing) |->
        CHOOSE q \in Range(listing) :
            Cardinality({ r \in Range(listing) : PathLess(r, q) }) = n - 1]

\* The orders rglob may list the .md files of a tree in.
Listings(files) ==
    LET md == { f \in files : IsMd(f) }
    IN  { l \in [1..Cardinality(md) -> md] :
            \A m, n \in 1..Cardinality(md) : l[m] = l[n] => m = n }

\* The frame of chunk_dir(root) of a SectionChunker(size, over) over a tree
\* that holds the given files; the tree is walked twice.
DirFrame(root, files, size, over) ==
    [pc |-> "called", root |-> root, files |-> files, size |-> size,
     over |-> over, run |-> 1, listing |-> <<>>, todo |-> <<>>,
     visited |-> <<>>, out |-> <<>>, listed |-> <<>>, runs |-> <<>>]

\* The calls of the model: every root, every tree of at most MaxFiles
\* files, under a small chunker and under the default one.
DirCalls ==
    { DirFrame(root, files, sz[1], sz[2]) :
        root \in Roots,
        files \in { t \in SUBSET TreeFiles : Cardinality(t) <= MaxFiles },
        sz \in { <<MaxSize, 1>>, <<chunk_chars, overlap_chars>> } }

\* Line 107: root.rglob("*.md") lists the files in some order and sorted()
\* orders them.
Rglob ==
    /\ walk.pc = "called"
    /\ \E listing \in Listings(walk.files) :
          walk' = [walk EXCEPT !.pc = "for", !.listing = listing,
                               !.listed = Append(walk.listed, listing),
                               !.todo = Sorted(listing)]
    /\ UNCHANGED <<ingest, graph, upserts, win, chunker, hash>>

\* Lines 108-109: a path whose posix form contains "/assets/" is passed over.
SkipAssets ==
    /\ walk.pc = "for"
    /\ walk.todo # <<>>
    /\ Skipped(walk.root, Head(walk.todo))
    /\ walk' = [walk EXCEPT !.todo = Tail(walk.todo)]
    /\ UNCHANGED <<ingest, graph, upserts, win, chunker, hash>>

\* Lines 110-113: the file is read and its chunks are yielded.
ChunkFile ==
    /\ walk.pc = "for"
    /\ walk.todo # <<>>
    /\ ~Skipped(walk.root, Head(walk.todo))
    /\ LET rel == Head(walk.todo)
       IN  walk' = [walk EXCEPT
               !.todo = Tail(walk.todo),
               !.visited = Append(walk.visited, rel),
               !.out = walk.out \o
                       chunk_markdown_text(ReadText(rel), RelStr(rel),
                                           walk.size, walk.over)]
    /\ UNCHANGED <<ingest, graph, upserts, win, chunker, hash>>

\* Line 107: the loop is exhausted and the generator ends; the first run is
\* followed by a second one over the same tree.
Exhausted ==
    /\ walk.pc = "for"
    /\ walk.todo = <<>>
    /\ LET run == [visited |-> walk.visited, out |-> walk.out]
       IN  IF walk.run = 1
           THEN walk' = [walk EXCEPT
                    !.pc = "called", !.run = 2,
                    !.visited = <<>>, !.out = <<>>,
                    !.runs = Append(walk.runs, run)]
           ELSE walk' = [walk EXCEPT
                    !.pc = "returned", !.runs = Append(walk.runs, run)]
    /\ UNCHANGED <<ingest, graph, upserts, win, chunker, hash>>

InitDir ==
    /\ NotIngesting
    /\ GraphEmpty
    /\ win = NoFrame
    /\ chunker = NoFrame
    /\ hash = NoFrame
    /\ walk \in DirCalls

NextDir ==
    \/ Rglob
    \/ SkipAssets
    \/ ChunkFile
    \/ Exhausted

\* chunk_dir on its own, two runs over one tree per behaviour.
SpecDir == InitDir /\ [][NextDir]_vars

(* ================= the graph store of a run of ingest_docs ============= *)

\* create_graph.py line 19, for every entity of a list: MERGE of its id.
RECURSIVE MergeNodes(_, _)
MergeNodes(nodes, ids) ==
    IF ids = <<>> THEN nodes
    ELSE MergeNodes(MergeNode(nodes, Head(ids)), Tail(ids))

\* The entity nodes the graph store holds after the store operations of a
\* log: those the committed upsert_entities transactions merged.
RECURSIVE StoreNodes(_)
StoreNodes(log) ==
    IF log = <<>> THEN <<>>
    ELSE LET nodes == StoreNodes(SubSeq(log, 1, Len(log) - 1))
             w == log[Len(log)]
         IN  IF w.op = "upsert_entities" THEN MergeNodes(nodes, w.ids)
             ELSE nodes

(* ===================== create_index.py: index_chunk ==================== *)

\* index_chunk posts the record to .../_doc/{chunk_id}: the index holds,
\* for every chunk id, the record posted last under it.
IndexOf(cs) ==
    [id \in { cs[n].chunk_id : n \in 1..Len(cs) } |->
        cs[CHOOSE n \in 1..Len(cs) :
              /\ cs[n].chunk_id = id
              /\ \A m \in (n + 1)..Len(cs) : cs[m].chunk_id # id]]

(* ----------------------- vocabulary of the claims --------------------- *)

\* Positions of the log that hold an operation op on chunk c.
WritesOf(op, c) ==
    { i \in 1..Len(writes) : writes[i].op = op /\ writes[i].chunk = c }

\* The Index Record of chunk c has been written.
Indexed(c) == WritesOf("index_chunk", c) # {}

\* The future whose call was given chunk c, if one exists in this batch.
FuturesFor(c) == { f \in DOMAIN futs : futs[f].chunk = c }

GraphOps == {"upsert_entities", "upsert_relations"}

Finished == pc \in {"done", "aborted"}

(* --------------------------------- C1 --------------------------------- *)

\* C1: in graph mode, whatever the order in which the extraction calls
\* complete, every slot filled so far holds the result of the call made for
\* the chunk at the same position of the batch, and the list handed to the
\* write loop has the batch's length with every slot filled that way.
Thm_C1_IndexAligned ==
    pc \in {"collect", "write"} =>
      /\ Len(kg_list) = Len(chunk_batch)
      /\ \A i \in 1..Len(chunk_batch) :
           /\ Cardinality(FuturesFor(chunk_batch[i])) = 1
           /\ \A f \in FuturesFor(chunk_batch[i]) :
                /\ futs[f].state # "collected" => kg_list[i] = None
                /\ futs[f].state = "collected" =>
                     /\ kg_list[i] # None
                     /\ ~futs[f].out.raised => kg_list[i][1] = futs[f].out.kg
      /\ pc = "write" => \A i \in 1..Len(kg_list) : kg_list[i] # None

\* The calls of a batch complete in inverse order: the third has been
\* collected into slot 3, the second has finished, the first still runs.
Wit_C1_InverseCompletion ==
    /\ pc = "collect"
    /\ Len(chunk_batch) >= 3
    /\ futs[1].state = "running"
    /\ futs[2].state = "done"
    /\ futs[3].state = "collected"
    /\ futs[3].out.kg.entities # <<>>
    /\ kg_list[3] = Some(futs[3].out.kg)

(* --------------------------------- C2 --------------------------------- *)

\* C2: when the extraction call of a chunk raises, the chunk's slot is
\* exactly the empty extraction, the other slots keep what their own calls
\* returned, no exception leaves ingest_docs from the collecting loop, and
\* once every call is collected the batch is in its write loop.
Thm_C2_FailureContained ==
    /\ error.at \notin {"submit", "collect"}
    /\ pc \in {"collect", "write"} =>
         \A f \in DOMAIN futs :
           futs[f].state = "collected" =>
             kg_list[futs[f].idx] =
               IF futs[f].out.raised THEN <<EmptyKG>> ELSE <<futs[f].out.kg>>
    /\ (pc \in {"collect", "write"} /\ AllCollected(futs)) => pc = "write"

\* One call of a batch raised, a sibling returned entities, and the write
\* loop has written the degraded chunk's Index Record with no entity ids.
Wit_C2_OneRaised ==
    /\ pc = "write"
    /\ \E f, g \in DOMAIN futs :
         /\ futs[f].out.raised
         /\ futs[f].out.exc = "APIError"
         /\ ~futs[g].out.raised
         /\ futs[g].out.kg.entities # <<>>
         /\ kg_list[futs[g].idx] = <<futs[g].out.kg>>
         /\ \E i \in WritesOf("index_chunk", futs[f].chunk) :
              writes[i].ids = <<>>

(* --------------------------------- C3 --------------------------------- *)

\* A store write of the graph-mode loop happens in this step.
GraphLoopWrite == session = "open" /\ Len(writes') > Len(writes)

\* An extraction call is dispatched in this step.
Dispatch == inflight' \ inflight # {}

\* C3: batch barrier.  All in-flight extraction calls belong to the current
\* batch and are at most effective_batch_size many; no store write of the
\* loop happens while a call is in flight; and a call is dispatched only
\* when every chunk of every earlier batch has had its Index Record
\* written.
Thm_C3_BatchBarrier ==
    [][ /\ inflight' \subseteq Range(chunk_batch')
        /\ Cardinality(inflight') <= effective_batch_size'
        /\ GraphLoopWrite => inflight = {}
        /\ Dispatch =>
             \A j \in 1..(Len(batches) - 1) :
               \A c \in Range(batches[j]) : Indexed(c) ]_vars

\* The second batch of a run has two calls in flight at once.
Wit_C3_SecondBatchInFlight ==
    /\ Len(batches) >= 2
    /\ Cardinality(inflight) >= 2
    /\ \A c \in Range(batches[1]) : Indexed(c)

(* --------------------------------- C4 --------------------------------- *)

\* C4: when a store write for one chunk of a batch fails in graph mode, the
\* chunks after it in the batch still have their Index Records written.
\* The code lets the store's exception leave ingest_docs instead.
CE_C4_LaterChunksWritten ==
    (Finished /\ error.at = "write" /\ error.exc \in StoreErrors) =>
      \A i \in (widx + 1)..Len(chunk_batch) : Indexed(chunk_batch[i])

(* --------------------------------- C5 --------------------------------- *)

\* C5: no response content aborts the run: a run that met no store error
\* ends with the Index Record of every chunk written.  The code lets the
\* AttributeError of a non-object list element leave ingest_docs.
CE_C5_MalformedHandledLocally ==
    (Finished /\ enable_graph /\ error.exc \notin StoreErrors) =>
      \A c \in Range(chunks) : Indexed(c)

(* --------------------------------- C6 --------------------------------- *)

\* The entities the call for chunk c of the current batch produced (none
\* when it raised).
ExtractedFor(f) ==
    IF futs[f].out.raised THEN <<>> ELSE futs[f].out.kg.entities

\* The ids of the entities that carry an id, in order.
IdsPresent(ents) == SelectSeq(IdsOf(ents), LAMBDA x : x # NoId)

\* The ids that are neither missing nor empty, in order.
NonEmptyIds(ents) == SelectSeq(IdsOf(ents), LAMBDA x : x # NoId /\ x # "")

\* C6 as stated: after a successful graph-mode run every chunk of the (last)
\* batch has exactly one Index Record, whose entity_ids are the ids of the
\* entities extracted from the chunk, in order.
CE_C6_AllEntityIds ==
    (pc = "done" /\ enable_graph) =>
      \A c \in Range(chunk_batch) :
        /\ Cardinality(WritesOf("index_chunk", c)) = 1
        /\ \A i \in WritesOf("index_chunk", c) :
             \A f \in FuturesFor(c) :
               writes[i].ids = IdsPresent(ExtractedFor(f))

\* C6 amended: no chunk's Index Record is written twice, after a successful
\* graph-mode run every chunk's has been written once, and the entity_ids of
\* a record are the non-empty ids of the entities extracted from the same
\* chunk, in extraction order (entities with a missing or empty id are left
\* out).
Thm_C6_NonEmptyEntityIds ==
    /\ \A c \in Range(chunks) : Cardinality(WritesOf("index_chunk", c)) <= 1
    /\ (pc = "done" /\ enable_graph) =>
         \A c \in Range(chunks) : Cardinality(WritesOf("index_chunk", c)) = 1
    /\ enable_graph =>
         \A c \in Range(chunk_batch) :
           \A i \in WritesOf("index_chunk", c) :
             /\ FuturesFor(c) # {}
             /\ \A f \in FuturesFor(c) :
                  writes[i].ids = NonEmptyIds(ExtractedFor(f))

\* A successful graph-mode run in which one chunk's entities include an
\* empty id (upserted, left out of entity_ids) and another chunk's record
\* has no entity ids.
Wit_C6_RunWithEmptyId ==
    /\ pc = "done"
    /\ enable_graph
    /\ \E i, j, l \in 1..Len(writes) :
         /\ writes[i].op = "upsert_entities"
         /\ writes[i].ids = <<"", "e2">>
         /\ writes[j].op = "index_chunk"
         /\ writes[j].chunk = writes[i].chunk
         /\ writes[j].ids = <<"e2">>
         /\ writes[l].op = "index_chunk"
         /\ writes[l].ids = <<>>

(* --------------------------------- C7 --------------------------------- *)

\* C7: a finished run with at least one chunk went through Chunking, one
\* chunk-indexing phase, ImageIndexing when the assets subtree exists, and
\* Done, in plain mode as in graph mode.  The plain branch of the code
\* returns before the image section.
CE_C7_PhaseOrder ==
    (pc = "done" /\ chunks # <<>>) =>
      phases = <<"Idle", "Chunking",
                 IF enable_graph THEN "GraphIndexing" ELSE "PlainIndexing">>
               \o (IF assets THEN <<"ImageIndexing">> ELSE <<>>)
               \o <<"Done">>

(* --------------------------------- C8 --------------------------------- *)

\* C8: once the document tree has yielded zero chunks the run is over at
\* once, having made no extraction call, opened no graph-store session and
\* performed no store operation but the provisioning of the chunk index
\* (the old index deleted, the new one put).
Thm_C8_EmptyTree ==
    (chunks = <<>> /\ pc \notin {"start", "chunking", "aborted"}) =>
      /\ pc = "done"
      /\ error = NoError
      /\ calls = <<>>
      /\ inflight = {}
      /\ session = "none"
      /\ writes = <<W("delete_index", 0, <<>>), W("put_index", 0, <<>>)>>
      /\ phases = <<"Idle", "Chunking", "Done">>

\* A graph-mode run over an empty tree that has an assets folder is done.
Wit_C8_EmptyTreeDone ==
    /\ pc = "done"
    /\ chunks = <<>>
    /\ enable_graph
    /\ assets
    /\ Len(writes) = 2

(* --------------------------------- C9 --------------------------------- *)

\* The chunks of the index_chunk operations of the log, in log order.
IndexedChunks ==
    LET idx == SelectSeq(writes, LAMBDA w : w.op = "index_chunk")
    IN  [i \in 1..Len(idx) |-> idx[i].chunk]

\* C9: in plain mode no extraction call is made and the graph store is
\* neither opened nor written; the Index Records are written one chunk at a
\* time in chunk order, each with empty entity_ids; after a successful run
\* every chunk has exactly one.
Thm_C9_PlainMode ==
    ~enable_graph =>
      /\ calls = <<>>
      /\ inflight = {}
      /\ session = "none"
      /\ \A i \in 1..Len(writes) :
           /\ writes[i].op \notin GraphOps
           /\ writes[i].op = "index_chunk" => writes[i].ids = <<>>
      /\ IndexedChunks = SubSeq(chunks, 1, Len(IndexedChunks))
      /\ pbar = Len(IndexedChunks)
      /\ (pc = "done" /\ chunks # <<>>) => IndexedChunks = chunks

\* A successful plain run over several chunks.
Wit_C9_PlainRunDone ==
    /\ ~enable_graph
    /\ pc = "done"
    /\ Len(chunks) >= 3
    /\ IndexedChunks = chunks

(* --------------------------------- C10 -------------------------------- *)

RECURSIVE Flatten(_)
Flatten(ss) == IF ss = <<>> THEN <<>> ELSE Head(ss) \o Flatten(Tail(ss))

\* The loop over the batches has ended without an exception.
GraphLoopDone ==
    enable_graph /\ pc \in {"image_check", "image_setup", "image_batch",
                            "image_index", "done"} /\ chunks # <<>>

\* C10: in graph mode, with B = max(1, batch_size), the batches yielded so
\* far are consecutive pieces of the chunk sequence: each is non-empty and
\* holds at most B chunks, each but the latest holds exactly B, a batch
\* shorter than B is the last one, and the batches followed by what the
\* generator still holds are the chunk sequence; every chunk's extraction
\* call is made at most once, in chunk order, and when the loop has ended
\* the batches are the whole chunk sequence and every chunk has had exactly
\* one call.
Thm_C10_Batching ==
    LET B == IF batch_size >= 1 THEN batch_size ELSE 1 IN
    (enable_graph /\ session # "none") =>
      /\ \A j \in 1..Len(batches) :
           /\ batches[j] # <<>>
           /\ Len(batches[j]) <= B
           /\ j < Len(batches) => Len(batches[j]) = B
           /\ Len(batches[j]) < B => (j = Len(batches) /\ it = <<>>)
      /\ Flatten(batches) \o it = chunks
      /\ calls = SubSeq(chunks, 1, Len(calls))
      /\ Len(calls) <= Len(Flatten(batches))
      /\ GraphLoopDone => (Flatten(batches) = chunks /\ calls = chunks)

\* The loop has ended after several batches, the last one smaller than B.
Wit_C10_ShortLastBatch ==
    /\ GraphLoopDone
    /\ Len(batches) >= 2
    /\ Len(batches[Len(batches)]) < effective_batch_size
    /\ Len(batches[1]) = effective_batch_size
    /\ batch_size >= 2

(* --------------------------------- C11 -------------------------------- *)

\* The chunks completed so far: those whose Index Record is written.
Completed == Len(IndexedChunks)

\* C11 as stated: at every point of a run, in plain and in graph mode, the
\* progress counter equals the number of completed chunks.
CE_C11_CounterIsCompleted == pbar = Completed

\* What the counter holds in a state.  Plain mode: the number of completed
\* chunks.  Graph mode: the chunks of the batches whose write loop has
\* ended, so inside a batch it lags the completed chunks by the part of the
\* batch already written; it never exceeds the completed chunks and it is
\* the chunk total when the chunk phase has ended without an exception.
CounterState ==
    /\ pbar <= Completed
    /\ ~enable_graph => pbar = Completed
    /\ (enable_graph /\ pc \in {"submit", "collect", "write"}) =>
         /\ pbar = Len(Flatten(batches)) - Len(chunk_batch)
         /\ Completed - pbar < Len(chunk_batch)
    /\ (enable_graph /\ pc = "batch_next") => pbar = Completed
    /\ GraphLoopDone => pbar = Len(chunks)
    /\ (~enable_graph /\ pc = "done") => pbar = Len(chunks)

\* How the counter moves in a step: never down; in plain mode by one, with
\* the chunk's Index Record; in graph mode by the length of the batch, with
\* the Index Record of the batch's last chunk.
CounterStep ==
    /\ pbar' >= pbar
    /\ (~enable_graph /\ pbar' # pbar) =>
         (pbar' = pbar + 1 /\ Len(writes') = Len(writes) + 1)
    /\ (enable_graph /\ pbar' # pbar) =>
         /\ pbar' = pbar + Len(chunk_batch)
         /\ widx = Len(chunk_batch)
         /\ writes' = Append(writes, W("index_chunk", chunk_batch[widx],
                                       writes'[Len(writes')].ids))

\* C11: the progress counter counts completed chunks, degraded ones
\* included, never decreases and is the chunk total when the chunk phase
\* ends successfully; in plain mode it advances by one per completed chunk
\* and equals the completed chunks at every point; in graph mode it
\* advances once per batch, by the batch's length, when the batch's last
\* Index Record is written, and equals the completed chunks at the batch
\* boundaries.
Thm_C11_Progress == [][CounterState' /\ CounterStep]_vars

\* Graph mode inside the second batch: one chunk of it is written and the
\* counter still holds the first batch only; the first chunk of the run was
\* degraded and is counted.
Wit_C11_CounterLags ==
    /\ enable_graph
    /\ Len(batches) = 2
    /\ pc = "write"
    /\ widx = 2
    /\ pbar = Len(batches[1])
    /\ Completed = pbar + 1
    /\ \E i \in 1..Len(writes) :
         /\ writes[i].op = "index_chunk"
         /\ writes[i].chunk = 1
         /\ writes[i].ids = <<>>

(* --------------------------------- C12 -------------------------------- *)

\* C12 as stated: an extraction call that never returns is bounded by a
\* timeout and degrades to an empty result, so the barrier of its batch is
\* always passed and no run hangs: in every state the run has ended or it
\* can take a step.
CE_C12_NoRunWideHang == Finished \/ ENABLED NextHang

(* --------------------------------- C13 -------------------------------- *)

\* The effect of an upsert call of the log on a store.
Apply(tx, call) ==
    IF call.op = "upsert_entities"
    THEN upsert_entities(tx, call.items, call.source_file,
                         call.section_path, call.doc_id)
    ELSE upsert_relations(tx, call.items, call.source_file)

\* C13 as stated: upsert_entities and upsert_relations are idempotent: the
\* store after a call is the store that the same call, applied once more,
\* gives (provenance arrays included).
CE_C13_Idempotent ==
    \A n \in 1..Len(upserts) :
        (n = Len(upserts) /\ ~upserts[n].raised) =>
            Apply(graph, upserts[n]) = graph

(* --------------------------------- C14 -------------------------------- *)

\* The observations of an id: for every committed upsert_entities call of
\* the log, in write order, every entity of its list with this id, with the
\* chunk fields the call was given.
Observations(id) ==
    LET of(call) ==
            IF call.op = "upsert_entities" /\ ~call.raised
            THEN [j \in 1..Len(call.items) |->
                    [ent |-> call.items[j], source_file |-> call.source_file,
                     section_path |-> call.section_path,
                     doc_id |-> call.doc_id]]
            ELSE <<>>
        all == Flatten([n \in 1..Len(upserts) |-> of(upserts[n])])
    IN  SelectSeq(all, LAMBDA o : o.ent.id = id)

NonNull(values) == SelectSeq(values, LAMBDA v : v # Null)

\* C14: after any sequence of upserts, the provenance arrays of a node hold
\* one entry per upsert_entities observation of its id, in write order,
\* duplicates retained (an observation made with a null argument adds
\* nothing to that argument's array): the values of two chunks that
\* observed the id are both there, and the three arrays have the same
\* length, the number of observations, when no argument was null.
Thm_C14_ProvenanceAccumulates ==
    \A i \in 1..Len(graph.nodes) :
        LET node == graph.nodes[i]
            obs == Observations(node.id)
            arg(f) == [j \in 1..Len(obs) |-> obs[j][f]]
        IN  IF obs = <<>>
            THEN /\ node.source_files = None
                 /\ node.section_paths = None
                 /\ node.doc_ids = None
            ELSE /\ node.source_files = Some(NonNull(arg("source_file")))
                 /\ node.section_paths = Some(NonNull(arg("section_path")))
                 /\ node.doc_ids = Some(NonNull(arg("doc_id")))
                 /\ (\A j \in 1..Len(obs) :
                        /\ obs[j].source_file # Null
                        /\ obs[j].section_path # Null
                        /\ obs[j].doc_id # Null)
                    => /\ Len(node.source_files[1]) = Len(obs)
                       /\ Len(node.section_paths[1]) = Len(obs)
                       /\ Len(node.doc_ids[1]) = Len(obs)

\* A node observed from two chunks, from one of them more than once: both
\* source files are in its array and one of them is there twice.
Wit_C14_TwoChunksAndDuplicate ==
    \E i \in 1..Len(graph.nodes) :
        LET node == graph.nodes[i] IN
        /\ node.source_files # None
        /\ Len(node.source_files[1]) >= 3
        /\ Range(node.source_files[1]) = {"a.md", "b.md"}
        /\ Range(node.doc_ids[1]) = {"d1", "d2"}
        /\ Len(node.section_paths[1]) = Len(node.source_files[1])
        /\ Len(node.doc_ids[1]) = Len(node.source_files[1])

(* --------------------------------- C15 -------------------------------- *)

\* C15: the entity id is the merge key: the store holds at most one node
\* per id, and after any sequence of upserts the name, type, description
\* and serialized extra of a node are those of the most recent
\* upsert_entities observation of its id, while the provenance values of
\* every earlier observation are still in its arrays.
Thm_C15_LastWriteWins ==
    /\ \A i, j \in 1..Len(graph.nodes) :
         graph.nodes[i].id = graph.nodes[j].id => i = j
    /\ \A i \in 1..Len(graph.nodes) :
         LET node == graph.nodes[i]
             obs == Observations(node.id)
             last == obs[Len(obs)].ent
         IN  obs # <<>> =>
               /\ node.name = IF "name" \in DOMAIN last
                              THEN last.name ELSE Null
               /\ node.type = IF "type" \in DOMAIN last
                              THEN last.type ELSE Null
               /\ node.description = IF "description" \in DOMAIN last
                                     THEN last.description ELSE ""
               /\ node.extra = IF "extra" \in DOMAIN last
                               THEN JsonDumps(last.extra) ELSE "{}"
               /\ \A j \in 1..Len(obs) :
                    /\ obs[j].source_file # Null =>
                         obs[j].source_file \in Range(node.source_files[1])
                    /\ obs[j].section_path \in Range(node.section_paths[1])
                    /\ obs[j].doc_id \in Range(node.doc_ids[1])

\* Node a was observed as A1 from a.md and then as A2 from b.md: it is A2,
\* without description and extra, and a.md is still in its provenance.
Wit_C15_Overwritten ==
    \E i \in 1..Len(graph.nodes) :
        LET node == graph.nodes[i]
            obs == Observations(node.id)
        IN  /\ Len(obs) >= 2
            /\ obs[1].ent.name = "A1"
            /\ obs[1].source_file = "a.md"
            /\ obs[Len(obs)].source_file = "b.md"
            /\ node.name = "A2"
            /\ node.description = ""
            /\ node.extra = "{}"
            /\ "a.md" \in Range(node.source_files[1])

(* --------------------------------- C16 -------------------------------- *)

\* The store is closed under edges: both endpoints of every edge are nodes,
\* no two edges have the same subject, predicate and object, and a node no
\* entity list has held is bare, as MERGE created it.
EdgesClosed ==
    /\ \A i \in 1..Len(graph.edges) :
         /\ HasNode(graph.nodes, graph.edges[i].subject)
         /\ HasNode(graph.nodes, graph.edges[i].object)
    /\ \A i, j \in 1..Len(graph.edges) :
         ( /\ graph.edges[i].subject = graph.edges[j].subject
           /\ graph.edges[i].predicate = graph.edges[j].predicate
           /\ graph.edges[i].object = graph.edges[j].object ) => i = j
    /\ \A i \in 1..Len(graph.nodes) :
         Observations(graph.nodes[i].id) = <<>> =>
             graph.nodes[i] = Bare(graph.nodes[i].id)

\* The step is a committed upsert_relations call.
RelationsStep ==
    /\ Len(upserts') = Len(upserts) + 1
    /\ upserts'[Len(upserts')].op = "upsert_relations"
    /\ ~upserts'[Len(upserts')].raised

\* C16: after any sequence of upserts both endpoints of every edge exist as
\* nodes (created bare when absent) and there is at most one edge per
\* (subject, predicate, object); an upsert_relations call leaves every node
\* that existed before it as it was: name, type, description, extra and
\* provenance arrays.
Thm_C16_EdgeClosure ==
    [][ /\ EdgesClosed'
        /\ RelationsStep =>
             SubSeq(graph'.nodes, 1, Len(graph.nodes)) = graph.nodes ]_vars

\* Entity a was upserted from a.md, then a list holding the relation from
\* a to b twice from b.md: the edge is there once with two provenance
\* entries and the later description, b is a bare node and a is as the
\* entity upsert left it.
Wit_C16_BareEndpoint ==
    /\ Len(upserts) = 2
    /\ upserts[2].op = "upsert_relations"
    /\ Len(graph.edges) = 1
    /\ graph.edges[1].subject = "a"
    /\ graph.edges[1].object = "b"
    /\ graph.edges[1].description = ""
    /\ graph.edges[1].source_files = Some(<<"b.md", "b.md">>)
    /\ \E i, j \in 1..Len(graph.nodes) :
         /\ graph.nodes[i] = Bare("b")
         /\ graph.nodes[j].id = "a"
         /\ graph.nodes[j].name = "A1"
         /\ graph.nodes[j].source_files = Some(<<"a.md">>)

(* --------------------------------- C17 -------------------------------- *)

\* _char_windows has returned from a call with a non-empty string and
\* arguments its assert accepts.
Sliced == win.pc = "returned" /\ win.n > 0

\* C17: for a string of length n > 0 and valid (S, O) every window
\* (start, end) satisfies 0 <= start < end <= n and end - start <= S, the
\* first window starts at 0, the last ends at n, and every index of
\* [0, n) lies in at least one window.
Thm_C17_WindowCoverage ==
    Sliced =>
      /\ win.out # <<>>
      /\ \A p \in 1..Len(win.out) :
           /\ 0 <= win.out[p][1]
           /\ win.out[p][1] < win.out[p][2]
           /\ win.out[p][2] <= win.n
           /\ win.out[p][2] - win.out[p][1] <= win.size
      /\ win.out[1][1] = 0
      /\ win.out[Len(win.out)][2] = win.n
      /\ \A x \in 0..(win.n - 1) :
           \E p \in 1..Len(win.out) :
               win.out[p][1] <= x /\ x < win.out[p][2]

\* A string cut into at least three windows, the last one shorter than S.
Wit_C17_ShortLastWindow ==
    /\ Sliced
    /\ win.n <= MaxLen
    /\ win.overlap > 0
    /\ Len(win.out) >= 3
    /\ win.out[Len(win.out)][2] - win.out[Len(win.out)][1] < win.size

(* --------------------------------- C18 -------------------------------- *)

\* C18: every window but possibly the last has length exactly S;
\* consecutive windows overlap by exactly O characters, the next start
\* being the previous end minus O, except possibly the last pair; the
\* starts advance strictly; with S = 800 and O = 120 on 2000 characters
\* the starts advance strictly and the last window ends at 2000.
Thm_C18_WindowOverlap ==
    Sliced =>
      /\ \A p \in 1..(Len(win.out) - 1) :
           /\ win.out[p][2] - win.out[p][1] = win.size
           /\ win.out[p][1] < win.out[p + 1][1]
           /\ p < Len(win.out) - 1 =>
                win.out[p + 1][1] = win.out[p][2] - win.overlap
      /\ (win.n = 2000 /\ win.size = 800 /\ win.overlap = 120) =>
           win.out = << <<0, 800>>, <<680, 1480>>, <<1360, 2000>> >>

\* The 2000 characters have been cut with the defaults.
Wit_C18_Defaults ==
    /\ Sliced
    /\ win.n = 2000
    /\ win.size = 800
    /\ win.overlap = 120
    /\ Len(win.out) = 3

(* --------------------------------- C20 -------------------------------- *)

\* The parts with those at positions x and y exchanged.
Swap(parts, x, y) == [parts EXCEPT ![x] = parts[y], ![y] = parts[x]]

\* C20 as stated: with an injective digest, for all sequences of string
\* parts the id is a function of the ordered parts: the same parts give the
\* same id, changing any one part changes the id, and swapping two unequal
\* parts changes the id.
CE_C20_OrderSensitive ==
    hash.pc = "returned" =>
      /\ hash_id(hash.parts) = hash.id
      /\ \A x \in 1..Len(hash.parts) : \A string \in Strings :
           string # hash.parts[x] =>
               hash_id([hash.parts EXCEPT ![x] = string]) # hash.id
      /\ \A x, y \in 1..Len(hash.parts) :
           hash.parts[x] # hash.parts[y] =>
               hash_id(Swap(hash.parts, x, y)) # hash.id

(* --------------------------------- C19 -------------------------------- *)

\* chunk_markdown_text has returned the chunks of the end-to-end document
\* under size 800 and overlap 120.
EndToEndDone ==
    /\ chunker.pc = "returned"
    /\ chunker.md_text = EndToEndDoc
    /\ chunker.size = 800
    /\ chunker.over = 120

TitlePath == <<"T", "i", "t", "l", "e">>

TitleSectionPath ==
    <<"T", "i", "t", "l", "e", " ", ">", " ",
      "S", "e", "c", "t", "i", "o", "n">>

DistinctIds(cs) ==
    \A x, y \in 1..Len(cs) : cs[x].chunk_id = cs[y].chunk_id => x = y

\* C19 as stated: the document yields exactly 2 chunks per section, 4 in
\* total, every chunk's section_path is "Title > Section", and the chunk
\* ids are pairwise distinct.
CE_C19_FourChunks ==
    EndToEndDone =>
      /\ Len(chunker.chunks) = 4
      /\ \A c \in 1..Len(chunker.counts) : chunker.counts[c] = 2
      /\ \A c \in 1..Len(chunker.chunks) :
           chunker.chunks[c].section_path = TitleSectionPath
      /\ DistinctIds(chunker.chunks)

\* C19: the document yields three sections and 5 chunks: one chunk for the
\* section the "# Title" heading opens, which holds the title line and the
\* Source line and has section_path "Title", and exactly 2 chunks for each
\* "## Section" section, 4 chunks with section_path "Title > Section"; the
\* 5 chunk ids are pairwise distinct.
Thm_C19_EndToEnd ==
    EndToEndDone =>
      /\ chunker.counts = <<1, 2, 2>>
      /\ Len(chunker.chunks) = 5
      /\ chunker.chunks[1].section_path = TitlePath
      /\ chunker.chunks[1].text =
             EndToEndDoc[1] \o <<"\n">> \o EndToEndDoc[2]
      /\ \A c \in 2..5 :
           chunker.chunks[c].section_path = TitleSectionPath
      /\ DistinctIds(chunker.chunks)

\* The chunks of the end-to-end document have been returned.
Wit_C19_EndToEndReturned ==
    /\ EndToEndDone
    /\ Len(chunker.sections) = 3
    /\ Len(chunker.sections[2].text) = 1012
    /\ Len(chunker.chunks[2].text) = 800


(* ------------------------------ C21 ------------------------------------ *)

\* The chunks of the files in the given order, file after file.
RECURSIVE ChunksOf(_, _, _)
ChunksOf(rels, size, over) ==
    IF rels = <<>> THEN <<>>
    ELSE chunk_markdown_text(ReadText(Head(rels)), RelStr(Head(rels)),
                             size, over)
         \o ChunksOf(Tail(rels), size, over)

Ascending(rels) ==
    \A n \in 1..(Len(rels) - 1) : PathLess(rels[n], rels[n + 1])

\* C21: two runs of chunk_dir over one tree yield the same chunks in the
\* same order, whatever order the directory listing comes in; the files
\* are visited in ascending path order and the chunks of a file are
\* contiguous and in document order.
Thm_C21_Deterministic ==
    /\ \A n \in 1..Len(walk.runs) :
          /\ Ascending(walk.runs[n].visited)
          /\ walk.runs[n].out
               = ChunksOf(walk.runs[n].visited, walk.size, walk.over)
    /\ walk.pc = "returned" => walk.runs[1] = walk.runs[2]

\* Two runs over three files that were chunked, listed in two different
\* orders, neither of them the sorted one.
Wit_C21_TwoListings ==
    /\ walk.pc = "returned"
    /\ Len(walk.runs[2].visited) = 3
    /\ walk.listed[1] # walk.listed[2]
    /\ walk.listed[1] # walk.runs[1].visited
    /\ walk.listed[2] # walk.runs[2].visited
    /\ walk.runs[2].out # <<>>


(* ------------------------------ C22 ------------------------------------ *)

\* The writes of the graph-mode loop, and the place of each in a chunk's
\* turn.
LoopOps == GraphOps \cup {"index_chunk"}

OpRank(op) ==
    CASE op = "upsert_entities" -> 1
      [] op = "upsert_relations" -> 2
      [] OTHER -> 3

LoopWrites == SelectSeq(writes, LAMBDA w : w.op \in LoopOps)

\* C22: in graph mode the store writes come in the order of the chunks and
\* for a chunk in the order entity upsert, relation upsert, Index Record,
\* each at most once; the entity upsert is made exactly when the chunk has
\* entities and the relation upsert exactly when it has relations; nothing
\* is written for a chunk before the Index Record of the chunk before it
\* is written; and the writes are made one at a time by the thread that
\* holds the session, with no extraction call running.
Thm_C22_WriteOrder ==
    enable_graph =>
      /\ LoopWrites # <<>> => LoopWrites[1].chunk = 1
      /\ \A n \in 1..(Len(LoopWrites) - 1) :
           \/ /\ LoopWrites[n + 1].chunk = LoopWrites[n].chunk
              /\ OpRank(LoopWrites[n].op) < OpRank(LoopWrites[n + 1].op)
           \/ /\ LoopWrites[n + 1].chunk = LoopWrites[n].chunk + 1
              /\ LoopWrites[n].op = "index_chunk"
      /\ pc = "write" =>
           /\ inflight = {}
           /\ session = "open"
           /\ \A n \in 1..Len(chunk_batch) :
                LET c == chunk_batch[n]
                    kg == KgOf(kg_list[n])
                IN  /\ WritesOf("upsert_entities", c) # {}
                       => kg.entities # <<>>
                    /\ WritesOf("upsert_relations", c) # {}
                       => kg.relations # <<>>
                    /\ Indexed(c) =>
                         /\ kg.entities # <<>>
                            => WritesOf("upsert_entities", c) # {}
                         /\ kg.relations # <<>>
                            => WritesOf("upsert_relations", c) # {}

\* A batch of two chunks in the middle of its writes: the first chunk had
\* its entities and relations upserted and its Index Record written, the
\* second, without relations, has had its entities upserted.
Wit_C22_SecondChunkUnderWay ==
    /\ enable_graph
    /\ pc = "write"
    /\ widx = 2
    /\ wstep = "index"
    /\ WritesOf("upsert_entities", chunk_batch[1]) # {}
    /\ WritesOf("upsert_relations", chunk_batch[1]) # {}
    /\ Indexed(chunk_batch[1])
    /\ WritesOf("upsert_entities", chunk_batch[2]) # {}
    /\ WritesOf("upsert_relations", chunk_batch[2]) = {}


(* ------------------------------ C23 ------------------------------------ *)

\* The windows of a section whose text is not empty after trimming.
Pieces(sec, size, over) ==
    LET windows == char_windows(sec.text, size, over)
    IN  { n \in 1..Len(windows) :
            Strip(SubSeq(sec.text, windows[n][1] + 1, windows[n][2]))
              # <<>> }

\* The lines that begin with ">".
QuoteLines(lines) == { n \in 1..Len(lines) : lines[n] # <<>> /\ lines[n][1] = ">" }

CE_C24_OneWindow ==
    (win.pc = "returned" /\ win.n < win.size) =>
      win.out = << <<0, win.n>> >>

\* C24 amended: for valid (S, O) and every non-empty text shorter than S,
\* _char_windows returns exactly the window (0, len).
Thm_C24_OneWindowNonEmpty ==
    (win.pc = "returned" /\ 0 < win.n /\ win.n < win.size) =>
      win.out = << <<0, win.n>> >>

\* A text of two characters cut with S = 3 and O = 2.
Wit_C24_ShortText ==
    /\ win.pc = "returned"
    /\ win.n = 2
    /\ win.size = 3
    /\ win.overlap = 2
    /\ Len(win.out) = 1

(* ------------------------------ C25 ------------------------------------ *)

\* The call has ended, by return or by the assert.
WindowsEnded == win.pc \in {"returned", "AssertionError"}

\* An iteration of the loop that is followed by another one.
Iteration == win.pc = "while" /\ win'.pc = "while"

\* C25: _char_windows terminates for every text and every valid (S, O);
\* each iteration moves the start strictly forward; and the windows are at
\* most as many as the text has characters.
Thm_C25_Terminates ==
    /\ [][Iteration => win'.i > win.i]_vars
    /\ [](win.pc \in {"while", "returned"} => Len(win.out) <= win.n)
    /\ <>WindowsEnded

\* The slowest walks: O = S - 1 over a text of MaxLen characters, and
\* S = 1, each ended with as many windows as the arguments allow.
Wit_C25_SlowestWalk ==
    /\ win.pc = "returned"
    /\ win.n >= 3
    /\ \/ win.size = 1 /\ Len(win.out) = win.n
       \/ /\ win.size > 1
          /\ win.overlap = win.size - 1
          /\ Len(win.out) = win.n - win.size + 1


(* ------------------------------ C26 ------------------------------------ *)

\* _split_sections has returned (line 83).
Split == chunker.pc \in {"for", "returned"}

\* No line of the text is a heading line.
NoHeading(lines) == \A n \in 1..Len(lines) : ~HeadingMatch(lines[n])

\* C26 as stated: every text without a heading line, the empty text
\* included, gives exactly one section, whose path is "(root)".  The empty
\* text has no line, the buffer stays empty and no section is emitted.
CE_C26_OneRootSection ==
    (Split /\ NoHeading(chunker.md_text)) =>
      /\ Len(chunker.sections) = 1
      /\ chunker.sections[1].path = Root

\* C26 amended: every text of at least one line without a heading line, a
\* text of only blank lines included, gives exactly one section, whose path
\* is "(root)"; the empty text gives no section.
Thm_C26_OneRootSectionOfLines ==
    (Split /\ NoHeading(chunker.md_text)) =>
      IF chunker.md_text = <<>>
      THEN chunker.sections = <<>>
      ELSE /\ Len(chunker.sections) = 1
           /\ chunker.sections[1].path = Root

\* A text of blank lines only has been split into its one section.
Wit_C26_BlankLines ==
    /\ Split
    /\ Len(chunker.md_text) >= 2
    /\ \A n \in 1..Len(chunker.md_text) : chunker.md_text[n] = <<>>
    /\ chunker.sections = <<[path |-> Root, text |-> <<"\n">>]>>

(* ------------------------------ C27 ------------------------------------ *)

\* The heading lines of the text, in order.
Headings(lines) ==
    SelectSeq([n \in 1..Len(lines) |-> n], LAMBDA n : HeadingMatch(lines[n]))

\* The number of sections that come before the one of the first heading.
Preamble(lines) ==
    IF lines # <<>> /\ ~HeadingMatch(lines[1]) THEN 1 ELSE 0

IsPrefix(pre, string) ==
    /\ Len(pre) <= Len(string)
    /\ SubSeq(string, 1, Len(pre)) = pre

\* C27: no emitted section consists of white space only, and every
\* section opened by a heading has the heading line as the first line of
\* its text.  The code emits every non-empty buffer of lines: blank lines
\* before the first heading become a section "(root)" with the text "\n".
CE_C27_NoBlankSection ==
    Split =>
      /\ \A n \in 1..Len(chunker.sections) :
           Strip(chunker.sections[n].text) # <<>>
      /\ \A h \in 1..Len(Headings(chunker.md_text)) :
           IsPrefix(chunker.md_text[Headings(chunker.md_text)[h]] \o <<"\n">>,
                    chunker.sections[h + Preamble(chunker.md_text)].text)


(* ------------------------------ C28 ------------------------------------ *)

\* The titles of the ancestors of a heading of the given level, looked for
\* from line m upwards: the nearest heading above of a lower level, then
\* that heading's ancestors.
RECURSIVE AncestorTitles(_, _, _)
AncestorTitles(lines, m, level) ==
    IF m = 0 THEN <<>>
    ELSE IF HeadingMatch(lines[m]) /\ HeadingLevel(lines[m]) < level
    THEN AncestorTitles(lines, m - 1, HeadingLevel(lines[m]))
         \o <<HeadingText(lines[m])>>
    ELSE AncestorTitles(lines, m - 1, level)

\* The path of nesting of the heading at line n.
NestingPath(lines, n) ==
    Join(<<" ", ">", " ">>,
         AncestorTitles(lines, n - 1, HeadingLevel(lines[n]))
         \o <<HeadingText(lines[n])>>)

\* C28: the path of a section opened by a heading is the titles of the
\* heading's ancestors and its own title joined by " > ", each component
\* of a strictly lower level than the next, also when levels are skipped.
\* The code cuts the stack by position: after "### D" the stack is [D],
\* and "## S" gets the path "D > S".
CE_C28_PathIsNesting ==
    Split =>
      \A h \in 1..Len(Headings(chunker.md_text)) :
        chunker.sections[h + Preamble(chunker.md_text)].path
          = NestingPath(chunker.md_text, Headings(chunker.md_text)[h])


(* ------------------------------ C29 ------------------------------------ *)

\* C29: whatever the content of the response, extract_kg_from_chunk
\* returns a result and does not raise: a call that raised did so in the
\* completion request, before there was a content.  The code raises
\* AttributeError on a content that parses to a JSON value that is not an
\* object.
CE_C29_ParseNeverRaises ==
    \A f \in DOMAIN futs :
      (futs[f].state = "done" /\ futs[f].out.raised)
        => futs[f].out.exc = "APIError"


(* ------------------------------ C30 ------------------------------------ *)

\* The file lies in the assets folder of the root.
InRootAssets(rel) == Len(rel) >= 2 /\ rel[1] = Assets

\* C30: for every root and every nesting, a walk chunks a .md file of the
\* tree if and only if the file does not lie in root/assets.  The code
\* looks for "/assets/" in the whole path, root included: under the root
\* "." the files of assets are chunked, under a root below a folder named
\* assets nothing is, and a file in an assets folder further down is passed
\* over.
CE_C30_AssetsOfRootOnly ==
    \A n \in 1..Len(walk.runs) :
      Range(walk.runs[n].visited)
        = { f \in walk.files : IsMd(f) /\ ~InRootAssets(f) }


(* ------------------------------ C31 ------------------------------------ *)

\* C31: the digest taken as injective, any two chunks of one walk have
\* different chunk ids, files with the same Source URL included, so that
\* the index holds one record per chunk.  Files with the same Source URL
\* have the same doc_id, and their chunks with the same section path and
\* the same index have the same chunk id.
CE_C31_UniqueIds ==
    \A n \in 1..Len(walk.runs) :
      /\ DistinctIds(walk.runs[n].out)
      /\ Cardinality(DOMAIN IndexOf(walk.runs[n].out))
           = Len(walk.runs[n].out)


(* ------------------------------ C32 ------------------------------------ *)

\* C32: in every state of a run, between any two writes and after a store
\* error has ended the run, every entity id in the entity_ids of a written
\* Index Record is the id of an entity node of the graph store: the
\* entities of a chunk are upserted before its Index Record is written.
Thm_C32_EntityIdsHaveNodes ==
    LET nodes == StoreNodes(writes)
    IN  \A j \in 1..Len(writes) :
          writes[j].op = "index_chunk" =>
            \A n \in 1..Len(writes[j].ids) :
              HasNode(nodes, writes[j].ids[n])

\* A run that a store error ended in the write loop after an Index Record
\* with two entity ids was written.
Wit_C32_AbortedAfterRecord ==
    /\ pc = "aborted"
    /\ error.at = "write"
    /\ error.exc \in StoreErrors
    /\ \E j \in 1..Len(writes) :
         /\ writes[j].op = "index_chunk"
         /\ Len(writes[j].ids) = 2
    /\ Len(StoreNodes(writes)) >= 3

=============================================================================
